---------------------------- MODULE Spec2Model ----------------------------
(* A model of the column operations of optimus' dask engine                *)
(* (src/optimus/engines/base/dask/columns.py and the helpers beside it):   *)
(* the partition-wise aggregations count_mismatch, frequency and hist, the *)
(* element-wise cast, and the table transforms qcut, find and set.         *)
EXTENDS Integers, Sequences, FiniteSets, TLC

VARIABLES
    df,        \* the table an aggregation reads: a sequence of partitions, each a sequence of rows
    args,      \* the arguments of the call being modelled
    partials,  \* the delayed per-partition tasks, in list order: a result, or Pending
    result,    \* what the call returned (NoResult until it returns)
    pc,        \* the position of the call: "run", "done", "failed", or "idle"
    series,    \* cast: the column being cast, one value per row
    idx,       \* cast: the number of elements Series.apply has handled so far
    outcol,    \* cast: the values produced so far
    err,       \* cast: the exception that ended the apply (NoError while none)
    tbl,       \* transforms: the table object the caller holds
    ret        \* transforms: the table the transform returned

vars == <<df, args, partials, result, pc, series, idx, outcol, err, tbl, ret>>

aggVars == <<df, args, partials, result, pc>>
castVars == <<series, idx, outcol, err>>
tblVars == <<tbl, ret>>

-----------------------------------------------------------------------------
(* Bounds of the model.                                                    *)

\* the most partitions a modelled table has
MaxParts == 2
\* the most rows a modelled table has, over all its partitions
MaxRows == 3
\* the most elements of a column handed to cast
MaxLen == 4
\* the largest number of bin edges (buckets) asked of hist
MaxBuckets == 3
\* the most rows of a table handed to frequency, over all its partitions
MaxFreqRows == 6
\* the largest n asked of frequency
MaxN == 3

-----------------------------------------------------------------------------
(* Values.  A cell holds a number, a string (a sequence of characters, so  *)
(* that parsing is computed), or one of the two nulls pandas knows: the    *)
(* float NaN and the object None.                                          *)

NaN == [t |-> "nan", n |-> 0, s |-> <<>>]
None == [t |-> "none", n |-> 0, s |-> <<>>]
Num(k) == [t |-> "num", n |-> k, s |-> <<>>]
Str(chars) == [t |-> "str", n |-> 0, s |-> chars]
\* the float m / 10^e
Float(m, e) == [t |-> "float", n |-> m, s |-> <<>>, e |-> e]
Bool(b) == [t |-> "bool", n |-> IF b THEN 1 ELSE 0, s |-> <<>>]

\* pd.isnull(value)
isnull(value) == value.t \in {"nan", "none"}

Pending == [t |-> "pending"]
NoResult == [t |-> "noresult"]
NoError == [t |-> "noerror"]

Range(f) == {f[i] : i \in DOMAIN f}

SeqUpTo(S, n) == UNION {[1..k -> S] : k \in 0..n}

RECURSIVE SumSeq(_)
SumSeq(q) == IF q = <<>> THEN 0 ELSE Head(q) + SumSeq(Tail(q))

RECURSIVE Flatten(_)
Flatten(qq) == IF qq = <<>> THEN <<>> ELSE Head(qq) \o Flatten(Tail(qq))

\* the sequence q with its entries i and j exchanged
Swap(q, i, j) ==
    [k \in DOMAIN q |-> IF k = i THEN q[j] ELSE IF k = j THEN q[i] ELSE q[k]]

\* the ways to cut n rows into 1..MaxParts partitions: the non-decreasing
\* sequences of the row counts at which a partition ends, the last being n
Divisions(n) ==
    {d \in UNION {[1..k -> 0..n] : k \in 1..MaxParts} :
        /\ d[Len(d)] = n
        /\ \A i \in 1..(Len(d) - 1) : d[i] <= d[i + 1]}

\* the rows q cut into partitions at the divisions d
Partition(q, d) ==
    [p \in DOMAIN d |->
        SubSeq(q, (IF p = 1 THEN 0 ELSE d[p - 1]) + 1, d[p])]

\* the tables of at most maxRows rows in 1..MaxParts partitions
TablesUpTo(Rows, maxRows) ==
    UNION {{Partition(q, d) : d \in Divisions(Len(q))} : q \in SeqUpTo(Rows, maxRows)}

\* the tables of the model: at most MaxRows rows in 1..MaxParts partitions
Tables(Rows) == TablesUpTo(Rows, MaxRows)

\* an ordered dict with distinct keys, as python keeps it: a sequence of <<key, value>> pairs
OrderedDicts(Keys, Vals) ==
    {d \in UNION {[1..k -> Keys \X Vals] : k \in 1..Cardinality(Keys)} :
        \A i, j \in DOMAIN d : d[i][1] = d[j][1] => i = j}

-----------------------------------------------------------------------------
(* count_mismatch                                                          *)

\* the columns of the profiled table
MismatchCols == {"a", "b"}

\* the cell values each column of the profiled table may hold
MismatchDomain == [a |-> {NaN, Num(1), Str(<<"x">>)}, b |-> {Num(1)}]

\* the profiler dtypes a column may be checked against
MismatchDtypes == {"int", "missing"}

\* profiler_dtype_func(dtype, True): the type predicate of a profiler dtype
profiler_dtype_func(dtype, value) ==
    CASE dtype = "int" -> value.t = "num"
      [] dtype = "string" -> value.t = "str"
      [] dtype = "missing" -> isnull(value)
      [] OTHER -> FALSE

\* count_mismatch.count_dtypes._func
_func(dtype, value) ==
    IF profiler_dtype_func(dtype, value) THEN 2
    ELSE IF isnull(value) THEN 1
    ELSE 0

\* Series.value_counts().to_dict(): a count for each value that occurs
value_counts_dict(q) ==
    [k \in Range(q) |-> Cardinality({i \in DOMAIN q : q[i] = k})]

\* update_dict(d, u): d with the keys of u overwritten
update_dict(d, u) ==
    [k \in (DOMAIN d) \cup (DOMAIN u) |-> IF k \in DOMAIN u THEN u[k] ELSE d[k]]

\* count_mismatch: init
init == [k \in {0, 1, 2} |-> 0]

\* a count_dtypes whose value_counts leaves the nulls out, as dropna does
count_dtypes_dropna(_df, _col_name, _dtype) ==
    LET mapped == [i \in DOMAIN _df |-> _func(_dtype, _df[i][_col_name])]
        r == update_dict(init, value_counts_dict(mapped))
    IN  _col_name :> [mismatch |-> r[0], missing |-> 0, match |-> r[2]]

\* count_mismatch.count_dtypes: one partition's tallies of one column
count_dtypes(_df, _col_name, _dtype) ==
    LET mapped == [i \in DOMAIN _df |-> _func(_dtype, _df[i][_col_name])]
        r == update_dict(init, value_counts_dict(mapped))
    IN  _col_name :> [mismatch |-> r[0], missing |-> r[1], match |-> r[2]]

\* the body of merge's loop: the tallies of one partial result added to r
merge_add(r, l) ==
    [i \in DOMAIN r |->
        IF i \in DOMAIN l
        THEN [mismatch |-> r[i].mismatch + l[i].mismatch,
              missing |-> r[i].missing + l[i].missing,
              match |-> r[i].match + l[i].match]
        ELSE r[i]]

RECURSIVE merge_loop(_, _)
merge_loop(r, _pdf) ==
    IF _pdf = <<>> THEN r ELSE merge_loop(merge_add(r, Head(_pdf)), Tail(_pdf))

\* a merge that assigns where it should add: the last partial result of a column wins
merge_keep_last(_pdf) ==
    LET columns == UNION {DOMAIN _pdf[k] : k \in DOMAIN _pdf}
        last(c) == CHOOSE k \in DOMAIN _pdf :
                      /\ c \in DOMAIN _pdf[k]
                      /\ \A m \in DOMAIN _pdf : c \in DOMAIN _pdf[m] => m <= k
    IN  [c \in columns |-> _pdf[last(c)][c]]

\* count_mismatch.merge: the per-column sums of the partial results
merge(_pdf) ==
    LET columns == UNION {DOMAIN _pdf[k] : k \in DOMAIN _pdf}
        r == [c \in columns |-> [mismatch |-> 0, missing |-> 0, match |-> 0]]
    IN  merge_loop(r, _pdf)

\* the list index of the task of partition p and the k-th requested column
\* (for part in partitions for col_name, dtype in columns_mismatch.items())
TaskIndex(ncols, p, k) == (p - 1) * ncols + k
TaskPart(ncols, t) == ((t - 1) \div ncols) + 1
TaskCol(ncols, t) == ((t - 1) % ncols) + 1

\* count_mismatch: delayed_parts, evaluated
delayed_parts(table, columns_mismatch) ==
    LET ncols == Len(columns_mismatch)
    IN  [t \in 1..(Len(table) * ncols) |->
            count_dtypes(table[TaskPart(ncols, t)],
                         columns_mismatch[TaskCol(ncols, t)][1],
                         columns_mismatch[TaskCol(ncols, t)][2])]

\* count_mismatch with compute=True, on a table
count_mismatch(table, columns_mismatch) ==
    merge(delayed_parts(table, columns_mismatch))

MismatchRows == {r \in [MismatchCols -> UNION Range(MismatchDomain)] :
                    \A c \in MismatchCols : r[c] \in MismatchDomain[c]}

IdleCast == series = <<>> /\ idx = 0 /\ outcol = <<>> /\ err = NoError
IdleTbl == tbl = NoResult /\ ret = NoResult
IdleAgg == df = <<>> /\ args = NoResult /\ partials = <<>> /\ result = NoResult /\ pc = "idle"

InitMismatch ==
    /\ df \in Tables(MismatchRows)
    /\ \E cm \in OrderedDicts(MismatchCols, MismatchDtypes) :
          /\ args = [op |-> "count_mismatch", columns_mismatch |-> cm]
          /\ partials = [t \in 1..(Len(df) * Len(cm)) |-> Pending]
    /\ result = NoResult
    /\ pc = "run"
    /\ IdleCast
    /\ IdleTbl

\* the scheduler runs the count_dtypes tasks of partition p; partitions are
\* taken in any order, and each result lands in its own place of delayed_parts
RunCountDtypes(p) ==
    /\ pc = "run"
    /\ args.op = "count_mismatch"
    /\ LET cm == args.columns_mismatch
           ncols == Len(cm)
       IN  /\ partials[TaskIndex(ncols, p, 1)] = Pending
           /\ partials' = [t \in DOMAIN partials |->
                   IF TaskPart(ncols, t) = p
                   THEN count_dtypes(df[p], cm[TaskCol(ncols, t)][1], cm[TaskCol(ncols, t)][2])
                   ELSE partials[t]]
    /\ UNCHANGED <<df, args, result, pc, castVars, tblVars>>

\* merge runs once every partial result is there; dd.compute(b)[0] returns it
RunMerge ==
    /\ pc = "run"
    /\ args.op = "count_mismatch"
    /\ \A t \in DOMAIN partials : partials[t] # Pending
    /\ result' = merge(partials)
    /\ pc' = "done"
    /\ UNCHANGED <<df, args, partials, castVars, tblVars>>

NextMismatch ==
    \/ \E p \in DOMAIN df : RunCountDtypes(p)
    \/ RunMerge

SpecMismatch == InitMismatch /\ [][NextMismatch]_vars

\* the rows of a table, whatever its partitioning
AllRows(table) == Flatten(table)

\* C1: count_mismatch counts every row of a requested column in exactly one of
\* mismatch, missing and match: the three tallies of every finished partition
\* add up to its row count, and the merged tallies to the table's row count.
C1_BucketsSumToRowCount ==
    /\ args.op = "count_mismatch" =>
          \A t \in DOMAIN partials : partials[t] # Pending =>
              \A c \in DOMAIN partials[t] :
                  partials[t][c].mismatch + partials[t][c].missing + partials[t][c].match
                      = Len(df[TaskPart(Len(args.columns_mismatch), t)])
    /\ (args.op = "count_mismatch" /\ pc = "done") =>
          \A k \in DOMAIN args.columns_mismatch :
              LET c == args.columns_mismatch[k][1]
              IN  /\ c \in DOMAIN result
                  /\ result[c].mismatch + result[c].missing + result[c].match
                        = Len(AllRows(df))

\* a merged result of two partitions in which one column has a row in each bucket
C1_Witness ==
    /\ args.op = "count_mismatch" /\ pc = "done" /\ Len(df) = 2
    /\ Len(df[1]) > 0 /\ Len(df[2]) > 0
    /\ "a" \in DOMAIN result
    /\ result["a"].mismatch = 1 /\ result["a"].missing = 1 /\ result["a"].match = 1

\* C4: count_mismatch returns what it returns for the same rows in one
\* partition, whatever the partitioning and whatever the order in which the
\* partitions were processed, and merge returns the same totals when any two
\* entries of the list of partial results change places (the exchanges that
\* every reordering of the list is made of).
C4_PartitionAndOrderInvariant ==
    (args.op = "count_mismatch" /\ pc = "done") =>
        /\ result = count_mismatch(<<AllRows(df)>>, args.columns_mismatch)
        /\ \A i, j \in DOMAIN partials : merge(Swap(partials, i, j)) = result

\* two non-empty partitions whose rows both count in the same bucket of a column
C4_Witness ==
    /\ args.op = "count_mismatch" /\ pc = "done" /\ Len(df) = 2
    /\ Len(df[1]) > 0 /\ Len(df[2]) > 0
    /\ Len(args.columns_mismatch) = 2
    /\ \E c \in DOMAIN result : result[c].match = 3

-----------------------------------------------------------------------------
(* hist                                                                    *)

\* the schema of the table hist reads: two numeric columns and a string column
HistCols == <<"a", "b", "s">>
HistDtypes == [a |-> "float64", b |-> "int64", s |-> "object"]

\* df.constants.NUMERIC_TYPES, as far as the schema goes
NUMERIC_TYPES == {"int64", "float64"}

\* the cell values each column may hold
HistDomain == [a |-> {NaN, Num(0), Num(1), Num(2)}, b |-> {Num(1)}, s |-> {Str(<<"x">>)}]

\* parse_columns(df, columns, filter_by_column_dtypes=...): the requested
\* columns whose dtype is in the filter, in the order requested
parse_columns(dtypes, columns, filter) ==
    SelectSeq(columns, LAMBDA c : dtypes[c] \in filter)

\* the numbers of a column of rows (min and max skip NaN)
Numbers(rows, col_name) ==
    {rows[i][col_name].n : i \in {k \in DOMAIN rows : rows[k][col_name].t = "num"}}

SetMin(S) == CHOOSE x \in S : \A y \in S : x <= y
SetMax(S) == CHOOSE x \in S : \A y \in S : x >= y

\* df[columns].min() and .max(): reductions over all partitions
_min(table, col_name) == SetMin(Numbers(Flatten(table), col_name))
_max(table, col_name) == SetMax(Numbers(Flatten(table), col_name))

\* a linspace that leaves the end point out (endpoint=False): the step is
\* (hi - lo) / buckets and the last edge falls short of hi
linspace_open(lo, hi, buckets) ==
    [k \in 1..buckets |-> [num |-> lo * buckets + (k - 1) * (hi - lo), den |-> buckets]]

\* np.linspace(lo, hi, num=buckets): edge k of buckets, as the exact fraction
\* num / den (den = buckets - 1), so that edges are compared without rounding
linspace(lo, hi, buckets) ==
    [k \in 1..buckets |-> [num |-> lo * (buckets - 1) + (k - 1) * (hi - lo),
                           den |-> buckets - 1]]

\* hist.bins_col: the edges of every column, from the global min and max
bins_col(table, _columns, buckets) ==
    [c \in Range(_columns) |-> linspace(_min(table, c), _max(table, c), buckets)]

\* fastnumbers.fast_real(x, default=np.nan) of a cell of a numeric column
fast_real(x) == IF x.t = "num" THEN x ELSE NaN

\* value < edge, and value <= edge
LessThan(v, e) == v.n * e.den < e.num
AtMost(v, e) == v.n * e.den <= e.num

\* np.histogram(p, bins=edges)[0]: the sorted values are searched for every
\* edge (left of all edges but the last, right of the last); NaN sorts last
\* and is counted in no bin
histogram(p, edges) ==
    LET nums == {i \in DOMAIN p : p[i].t = "num"}
        cum_n == [k \in DOMAIN edges |->
                    IF k < Len(edges)
                    THEN Cardinality({i \in nums : LessThan(p[i], edges[k])})
                    ELSE Cardinality({i \in nums : AtMost(p[i], edges[k])})]
    IN  [k \in 1..(Len(edges) - 1) |-> cum_n[k + 1] - cum_n[k]]

\* hist._hist: one partition's counts of one column, with the global edges
_hist(pdf, col_name, _bins) ==
    LET p == [i \in DOMAIN pdf |-> fast_real(pdf[i][col_name])]
    IN  col_name :> <<histogram(p, _bins[col_name]), _bins[col_name]>>

\* np.sum([x, t[0]], axis=0)
np_sum(x, y) == [k \in DOMAIN x |-> x[k] + y[k]]

\* the body of _agg_hist's loop for one entry of values: x is never assigned,
\* so _count is the entry's own counts, and the entry replaces what _result
\* held for its column
agg_hist_step(_result, i, buckets) ==
    LET x == [k \in 1..(buckets - 1) |-> 0]
        col_name == CHOOSE j \in DOMAIN i : TRUE
        t == i[col_name]
        _count == np_sum(x, t[1])
        _bins == t[2]
        r == [k \in 1..Len(_count) |->
                [lower |-> _bins[k], upper |-> _bins[k + 1], count |-> _count[k]]]
    IN  [c \in (DOMAIN _result) \cup {col_name} |-> IF c = col_name THEN r ELSE _result[c]]

RECURSIVE agg_hist_loop(_, _, _)
agg_hist_loop(_result, values, buckets) ==
    IF values = <<>> THEN _result
    ELSE agg_hist_loop(agg_hist_step(_result, Head(values), buckets), Tail(values), buckets)

\* hist._agg_hist
_agg_hist(values, buckets) == agg_hist_loop(<<>>, values, buckets)

\* the rows of the hist table, and the tables in which every numeric column
\* holds a number (so that its min and max are numbers)
HistRows == {r \in [Range(HistCols) -> UNION Range(HistDomain)] :
                \A c \in Range(HistCols) : r[c] \in HistDomain[c]}
HistTables == {t \in Tables(HistRows) :
                \A c \in {"a", "b"} : Numbers(Flatten(t), c) # {}}

\* the column lists asked of hist: the non-empty selections, in table order
HistColumnLists ==
    {SelectSeq(HistCols, LAMBDA c : c \in S) : S \in (SUBSET Range(HistCols)) \ {{}}}

InitHist ==
    /\ df \in HistTables
    /\ \E cl \in HistColumnLists, b \in 2..MaxBuckets :
          LET columns == parse_columns(HistDtypes, cl, NUMERIC_TYPES)
          IN  /\ args = [op |-> "hist", asked |-> cl, columns |-> columns, buckets |-> b,
                         _bins |-> Pending]
              /\ partials = [t \in 1..(Len(df) * Len(columns)) |-> Pending]
    /\ result = NoResult
    /\ pc = "run"
    /\ IdleCast
    /\ IdleTbl

\* the min and max reductions and bins_col run first: every _hist task reads _bins
RunBinsCol ==
    /\ pc = "run"
    /\ args.op = "hist"
    /\ args._bins = Pending
    /\ args' = [args EXCEPT !._bins = bins_col(df, args.columns, args.buckets)]
    /\ UNCHANGED <<df, partials, result, pc, castVars, tblVars>>

\* the scheduler runs the _hist tasks of partition p, partitions in any order
RunHist(p) ==
    /\ pc = "run"
    /\ args.op = "hist"
    /\ args._bins # Pending
    /\ LET ncols == Len(args.columns)
       IN  /\ ncols > 0
           /\ partials[TaskIndex(ncols, p, 1)] = Pending
           /\ partials' = [t \in DOMAIN partials |->
                   IF TaskPart(ncols, t) = p
                   THEN _hist(df[p], args.columns[TaskCol(ncols, t)], args._bins)
                   ELSE partials[t]]
    /\ UNCHANGED <<df, args, result, pc, castVars, tblVars>>

\* _agg_hist runs once every _hist task is done; d.compute() returns its result
RunAggHist ==
    /\ pc = "run"
    /\ args.op = "hist"
    /\ args._bins # Pending
    /\ \A t \in DOMAIN partials : partials[t] # Pending
    /\ result' = _agg_hist(partials, args.buckets)
    /\ pc' = "done"
    /\ UNCHANGED <<df, args, partials, castVars, tblVars>>

NextHist ==
    \/ RunBinsCol
    \/ \E p \in DOMAIN df : RunHist(p)
    \/ RunAggHist

SpecHist == InitHist /\ [][NextHist]_vars

\* the counts a column of a finished hist reports, bin by bin
ReportedCounts(c) == [k \in DOMAIN result[c] |-> result[c][k].count]

\* the numeric values of column c of the whole table that fall in each bin
WholeColumnCounts(c) ==
    histogram([i \in DOMAIN AllRows(df) |-> fast_real(AllRows(df)[i][c])], args._bins[c])

\* the element-wise sum, over the partitions, of each partition's counts for column c
RECURSIVE SumOfPartials(_, _, _)
SumOfPartials(c, values, zero) ==
    IF values = <<>> THEN zero
    ELSE LET rest == SumOfPartials(c, Tail(values), zero)
         IN  IF c \in DOMAIN Head(values) THEN np_sum(rest, Head(values)[c][1]) ELSE rest

\* C2: the count hist reports for each bin of a column is the element-wise sum
\* over all partitions of that partition's count for the bin, which is the
\* number of numeric values of the whole column in the bin.
C2_HistCountsAreSumOverPartitions ==
    (args.op = "hist" /\ pc = "done") =>
        \A k \in DOMAIN args.columns :
            LET c == args.columns[k]
            IN  /\ c \in DOMAIN result
                /\ ReportedCounts(c)
                     = SumOfPartials(c, partials, [b \in 1..(args.buckets - 1) |-> 0])
                /\ ReportedCounts(c) = WholeColumnCounts(c)

\* C3: the bucket counts hist reports for a numeric column, plus the values
\* left out as not a number, add up to the table's row count.
C3_HistCountsPlusExcludedIsRowCount ==
    (args.op = "hist" /\ pc = "done") =>
        \A k \in DOMAIN args.columns :
            LET c == args.columns[k]
                excluded == Cardinality({i \in DOMAIN AllRows(df) :
                                            fast_real(AllRows(df)[i][c]).t # "num"})
            IN  /\ c \in DOMAIN result
                /\ SumSeq(ReportedCounts(c)) + excluded = Len(AllRows(df))

-----------------------------------------------------------------------------
(* cast                                                                    *)

\* the target dtypes cast_func has an entry for
CastDtypes == {"int", "decimal", "string", "bool", "date", "array", "object", "gender",
               "ip", "url", "email", "credit_card_number", "zip_code", "missing"}

\* the on_error policies a caller may give; "none" stands for no on_error given
OnErrorPolicies == {"none", "nan", "raise"}

\* the values of the column being cast: the two nulls and the strings "1", "x", "3.5"
CastValues == {None, NaN, Str(<<"1">>), Str(<<"x">>), Str(<<"3", ".", "5">>)}

DigitChars == <<"0", "1", "2", "3", "4", "5", "6", "7", "8", "9">>
IsDigit(c) == \E i \in DOMAIN DigitChars : DigitChars[i] = c
DigitVal(c) == (CHOOSE i \in DOMAIN DigitChars : DigitChars[i] = c) - 1

\* the number a sequence of digits writes
RECURSIVE DigitsVal(_)
DigitsVal(q) ==
    IF q = <<>> THEN 0 ELSE DigitsVal(SubSeq(q, 1, Len(q) - 1)) * 10 + DigitVal(q[Len(q)])

AllDigits(q) == Len(q) > 0 /\ \A i \in DOMAIN q : IsDigit(q[i])

\* a string without its sign
Unsigned(q) == IF Len(q) > 0 /\ q[1] \in {"+", "-"} THEN Tail(q) ELSE q
Sign(q) == IF Len(q) > 0 /\ q[1] = "-" THEN -1 ELSE 1

\* an integer literal: an optional sign and digits
IsIntLiteral(q) == AllDigits(Unsigned(q))

\* where the decimal point of a string is (0 when it has none)
PointAt(q) == IF \E i \in DOMAIN q : q[i] = "." THEN CHOOSE i \in DOMAIN q : q[i] = "." ELSE 0

\* a decimal literal: an optional sign, digits, a point, digits
IsDecimalLiteral(q) ==
    LET u == Unsigned(q)
        k == PointAt(u)
    IN  k > 0 /\ AllDigits(SubSeq(u, 1, k - 1)) /\ AllDigits(SubSeq(u, k + 1, Len(u)))

RECURSIVE Pow10(_)
Pow10(e) == IF e = 0 THEN 1 ELSE 10 * Pow10(e - 1)

\* the kwargs of the fastnumbers calls: bound only when on_error == "nan"
KwargsBound(on_error) == on_error = "nan"

\* a fast_int that truncates a decimal literal, as fast_forceint does
fast_forceint(value) ==
    IF value.t = "num" THEN value
    ELSE IF value.t = "float" THEN Num(value.n \div Pow10(value.e))
    ELSE IF value.t = "str" /\ IsIntLiteral(value.s)
         THEN Num(Sign(value.s) * DigitsVal(Unsigned(value.s)))
    ELSE IF value.t = "str" /\ IsDecimalLiteral(value.s)
         THEN LET u == Unsigned(value.s)
              IN  Num(Sign(value.s) * DigitsVal(SubSeq(u, 1, PointAt(u) - 1)))
    ELSE NaN

\* fastnumbers.fast_int(value, default=np.nan): a number is truncated to an
\* int, a string is converted when it is an integer literal, and anything
\* else (a decimal literal too) gives the default
fast_int(value) ==
    IF value.t = "num" THEN value
    ELSE IF value.t = "float" THEN Num(value.n \div Pow10(value.e))
    ELSE IF value.t = "str" /\ IsIntLiteral(value.s)
         THEN Num(Sign(value.s) * DigitsVal(Unsigned(value.s)))
    ELSE NaN

\* fastnumbers.fast_float(value, default=np.nan)
fast_float(value) ==
    IF value.t = "num" THEN Float(value.n, 0)
    ELSE IF value.t = "float" THEN value
    ELSE IF value.t = "str" /\ IsIntLiteral(value.s)
         THEN Float(Sign(value.s) * DigitsVal(Unsigned(value.s)), 0)
    ELSE IF value.t = "str" /\ IsDecimalLiteral(value.s)
         THEN LET u == Unsigned(value.s)
                  k == PointAt(u)
              IN  Float(Sign(value.s) * DigitsVal(SubSeq(u, 1, k - 1) \o SubSeq(u, k + 1, Len(u))),
                        Len(u) - k)
    ELSE NaN

\* what a cast function gives for one value: the value, or the exception it raises
Returned(v) == [ok |-> TRUE, value |-> v]
Raised(kind, v) == [ok |-> FALSE, kind |-> kind, value |-> v]

\* cast._cast_int
_cast_int(value, on_error) ==
    IF isnull(value) THEN Returned(NaN)
    ELSE IF KwargsBound(on_error) THEN Returned(fast_int(value))
    ELSE Raised("NameError", value)

\* cast._cast_float
_cast_float(value, on_error) ==
    IF isnull(value) THEN Returned(NaN)
    ELSE IF KwargsBound(on_error) THEN Returned(fast_float(value))
    ELSE Raised("NameError", value)

\* bool(value)
PyBool(value) ==
    CASE value.t = "str" -> Bool(Len(value.s) > 0)
      [] value.t \in {"num", "float"} -> Bool(value.n # 0)
      [] OTHER -> value

\* cast._cast_bool
_cast_bool(value, on_error) ==
    IF isnull(value) THEN Returned(NaN) ELSE Returned(PyBool(value))

\* cast._cast_date: the value as it is, unless null
_cast_date(value, on_error) ==
    IF isnull(value) THEN Returned(NaN) ELSE Returned(value)

\* the digits that write a natural number
RECURSIVE DigitsOf(_)
DigitsOf(k) ==
    IF k < 10 THEN <<DigitChars[k + 1]>> ELSE DigitsOf(k \div 10) \o <<DigitChars[(k % 10) + 1]>>

\* str(value)
PyStr(value) ==
    CASE value.t = "str" -> value
      [] value.t = "num" ->
            Str((IF value.n < 0 THEN <<"-">> ELSE <<>>)
                    \o DigitsOf(IF value.n < 0 THEN -value.n ELSE value.n))
      [] value.t = "bool" -> IF value.n = 1 THEN Str(<<"T", "r", "u", "e">>)
                                            ELSE Str(<<"F", "a", "l", "s", "e">>)
      [] value.t = "none" -> Str(<<"N", "o", "n", "e">>)
      [] value.t = "nan" -> Str(<<"n", "a", "n">>)
      [] OTHER -> value

\* a _cast_str without its null check: str() of a null is a string
_cast_str_unguarded(value, on_error) == Returned(PyStr(value))

\* cast._cast_str
_cast_str(value, on_error) ==
    IF isnull(value) THEN Returned(NaN) ELSE Returned(PyStr(value))

\* cast._cast_object: do nothing
_cast_object(value, on_error) == Returned(value)

\* cast.cast_func[dtype], applied to a value
cast_func(dtype, value, on_error) ==
    CASE dtype = "int" -> _cast_int(value, on_error)
      [] dtype = "decimal" -> _cast_float(value, on_error)
      [] dtype = "string" -> _cast_str(value, on_error)
      [] dtype = "bool" -> _cast_bool(value, on_error)
      [] dtype = "date" -> _cast_date(value, on_error)
      [] dtype \in {"array", "object", "gender", "ip", "url", "email", "credit_card_number"} ->
            _cast_object(value, on_error)
      [] dtype \in {"zip_code", "missing"} -> _cast_str(value, on_error)

\* pdf[input_col].apply(cast_func[dtype]): the values in row order, up to the
\* first one that raises; done is the values converted before it
RECURSIVE apply(_, _, _, _)
apply(q, dtype, on_error, done) ==
    IF Len(done) = Len(q) THEN [out |-> done, err |-> NoError]
    ELSE LET r == cast_func(dtype, q[Len(done) + 1], on_error)
         IN  IF r.ok THEN apply(q, dtype, on_error, Append(done, r.value))
             ELSE [out |-> done,
                   err |-> [t |-> r.kind, at |-> Len(done) + 1, value |-> r.value,
                            dtype |-> dtype]]

InitCast ==
    /\ series \in SeqUpTo(CastValues, MaxLen)
    /\ \E d \in CastDtypes, oe \in OnErrorPolicies :
          args = [op |-> "cast", dtype |-> d, on_error |-> oe]
    /\ idx = 0
    /\ outcol = <<>>
    /\ err = NoError
    /\ pc = "run"
    /\ df = <<>> /\ partials = <<>> /\ result = NoResult
    /\ IdleTbl

\* cast on a column that holds series: the apply runs through the column
Cast ==
    /\ pc = "run"
    /\ args.op = "cast"
    /\ LET r == apply(series, args.dtype, args.on_error, <<>>)
       IN  /\ outcol' = r.out
           /\ idx' = Len(r.out)
           /\ err' = r.err
           /\ pc' = IF r.err = NoError THEN "done" ELSE "failed"
    /\ UNCHANGED <<df, args, partials, result, series, tblVars>>

NextCast == Cast

SpecCast == InitCast /\ [][NextCast]_vars

\* the column of the specification's casting example: "1", "x", None, "3.5"
CastExample == <<Str(<<"1">>), Str(<<"x">>), None, Str(<<"3", ".", "5">>)>>

\* a value that the int cast cannot parse: not null and no integer literal or number
UnparseableInt(v) == ~isnull(v) /\ ~(v.t \in {"num", "float"}) /\ ~(v.t = "str" /\ IsIntLiteral(v.s))

\* C5: with on_error="raise" and target dtype int, the cast fails with a
\* CastError at the first unparseable value, carrying that value and the
\* dtype, and values that parse do not make it fail; on "1", "x", None, "3.5"
\* that is the second element.
C5_RaiseGivesCastErrorAtFirstUnparseable ==
    (args.op = "cast" /\ pc # "run" /\ args.dtype = "int" /\ args.on_error = "raise") =>
        LET bad == {i \in DOMAIN series : UnparseableInt(series[i])}
        IN  /\ bad = {} => err = NoError
            /\ bad # {} =>
                  /\ err # NoError
                  /\ err.t = "CastError"
                  /\ err.at = SetMin(bad)
                  /\ err.value = series[SetMin(bad)]
                  /\ err.dtype = "int"
            /\ series = CastExample => (err # NoError /\ err.at = 2)

\* C6 as the specification states it: with on_error="nan" and target dtype
\* int, "1", "x", None, "3.5" gives 1, NaN, NaN, 3 and nothing is raised.
C6_ExampleGivesThreeForDecimalLiteral ==
    (args.op = "cast" /\ pc # "run" /\ args.dtype = "int" /\ args.on_error = "nan"
        /\ series = CastExample) =>
        /\ err = NoError
        /\ outcol = <<Num(1), NaN, NaN, Num(3)>>

\* C6, amended: with on_error="nan" and target dtype int nothing is raised,
\* "1" becomes 1 and every null and every string that is no integer literal,
\* the decimal literal "3.5" too, becomes the null marker NaN; "1", "x", None,
\* "3.5" gives 1, NaN, NaN, NaN.
C6_NanPolicyNullsWhatIsNoIntLiteral ==
    (args.op = "cast" /\ pc # "run" /\ args.dtype = "int" /\ args.on_error = "nan") =>
        /\ err = NoError
        /\ pc = "done"
        /\ Len(outcol) = Len(series)
        /\ \A i \in DOMAIN series :
              outcol[i] = (IF series[i] = Str(<<"1">>) THEN Num(1) ELSE NaN)
        /\ series = CastExample => outcol = <<Num(1), NaN, NaN, NaN>>

\* the example has been cast under the nan policy
C6_Witness ==
    /\ args.op = "cast" /\ pc = "done" /\ args.dtype = "int" /\ args.on_error = "nan"
    /\ series = CastExample
    /\ outcol = <<Num(1), NaN, NaN, NaN>>

\* C7: whatever the target dtype and the on_error policy, a null value is
\* cast to a null value and is never the value an exception is raised on; a
\* column of nulls alone is cast without a failure.
C7_NullMapsToNullAndNeverFails ==
    (args.op = "cast" /\ pc # "run") =>
        /\ \A i \in DOMAIN outcol : isnull(series[i]) => isnull(outcol[i])
        /\ err # NoError => ~isnull(series[err.at])
        /\ (\A i \in DOMAIN series : isnull(series[i])) =>
              (pc = "done" /\ Len(outcol) = Len(series))

\* a column with both nulls has been cast to a string dtype with no policy given
C7_Witness ==
    /\ args.op = "cast" /\ pc = "done" /\ args.dtype = "zip_code" /\ args.on_error = "none"
    /\ series = <<None, Str(<<"x">>), NaN>>
    /\ outcol = <<NaN, Str(<<"x">>), NaN>>

-----------------------------------------------------------------------------
(* frequency                                                               *)

\* the schema of the table frequency reads: a numeric column and a string column
FreqCols == <<"a", "s">>
FreqDtypes == [a |-> "int64", s |-> "object"]

\* the cell values each column may hold
FreqDomain == [a |-> {Num(1), Num(2), Num(3)}, s |-> {None}]

\* the order of characters in strings
Alphabet == <<"-", ".", "0", "1", "2", "3", "4", "5", "6", "7", "8", "9",
              "F", "N", "T", "a", "e", "l", "n", "o", "r", "s", "u", "x">>
CharRank(c) == CHOOSE i \in DOMAIN Alphabet : Alphabet[i] = c

\* string comparison, character by character
RECURSIVE StrLess(_, _)
StrLess(u, v) ==
    IF v = <<>> THEN FALSE
    ELSE IF u = <<>> THEN TRUE
    ELSE IF Head(u) = Head(v) THEN StrLess(Tail(u), Tail(v))
    ELSE CharRank(Head(u)) < CharRank(Head(v))

\* the order of the values of one column: numbers by size, strings as strings
ValueLess(u, v) ==
    IF u.t = "str" /\ v.t = "str" THEN StrLess(u.s, v.s) ELSE u.n < v.n

\* Series.astype(str), value by value
astype_str(value) == PyStr(value)

\* df.assign(**a): the rows with every non-numeric column cast to str
assign_str(dtypes, rows) ==
    [i \in DOMAIN rows |->
        [c \in DOMAIN rows[i] |->
            IF dtypes[c] \in NUMERIC_TYPES THEN rows[i][c] ELSE astype_str(rows[i][c])]]

\* where an entry of q goes when q is sorted by count, largest first, entries
\* of equal count keeping their order
RankDesc(q, i) ==
    1 + Cardinality({j \in DOMAIN q :
                        \/ q[j].count > q[i].count
                        \/ (q[j].count = q[i].count /\ j < i)})

\* Series.sort_values(ascending=False) of a series of counts
sort_values_desc(q) ==
    [k \in DOMAIN q |-> q[CHOOSE i \in DOMAIN q : RankDesc(q, i) = k]]

\* where a key goes when the keys are put in order
RankKey(keys, v) == 1 + Cardinality({u \in keys : ValueLess(u, v)})

\* the place of the first row of q that holds v
FirstAt(q, v) == CHOOSE i \in DOMAIN q : q[i] = v /\ \A j \in DOMAIN q : q[j] = v => i <= j

\* the values of q in the order in which they first occur
FirstSeen(q) ==
    LET keys == {q[i] : i \in DOMAIN q}
        key(k) == CHOOSE v \in keys :
                     Cardinality({u \in keys : FirstAt(q, u) < FirstAt(q, v)}) = k - 1
    IN  [k \in 1..Cardinality(keys) |-> key(k)]

\* a group-sum that keeps the values in the order in which the chunks bring
\* them (sort=False) instead of putting them in order
groupby_sum_unsorted(chunks) ==
    LET all == Flatten(chunks)
        seen == FirstSeen([i \in DOMAIN all |-> all[i].value])
        total(v) == SumSeq([i \in DOMAIN all |-> IF all[i].value = v THEN all[i].count ELSE 0])
    IN  [k \in DOMAIN seen |-> [value |-> seen[k], count |-> total(seen[k])]]

\* groupby(level=0).sum() of the concatenated chunks: one entry per value,
\* the values in their order, each with the sum of its counts
groupby_sum(chunks) ==
    LET all == Flatten(chunks)
        keys == {all[i].value : i \in DOMAIN all}
        key(k) == CHOOSE v \in keys : RankKey(keys, v) = k
        total(v) == SumSeq([i \in DOMAIN all |-> IF all[i].value = v THEN all[i].count ELSE 0])
    IN  [k \in 1..Cardinality(keys) |-> [value |-> key(k), count |-> total(key(k))]]

\* pandas' Series.value_counts() of one partition: nulls dropped, one entry
\* per value, sorted by count with the largest first
chunk_value_counts(pdf, col_name) ==
    LET column == [i \in DOMAIN pdf |-> pdf[i][col_name]]
        kept == SelectSeq(column, LAMBDA v : ~isnull(v))
        seen == FirstSeen(kept)
    IN  sort_values_desc([k \in DOMAIN seen |->
            [value |-> seen[k],
             count |-> Cardinality({i \in DOMAIN kept : kept[i] = seen[k]})]])

\* dask's value_counts aggregation: the chunks of all partitions summed per
\* value, then sorted by count with the largest first
value_counts_aggregate(chunks) == sort_values_desc(groupby_sum(chunks))

\* frequency: df[col_name].value_counts(), over all partitions
value_counts(table, col_name) ==
    value_counts_aggregate([p \in DOMAIN table |-> chunk_value_counts(table[p], col_name)])

\* Series.nlargest(n), keep="first"
nlargest(q, n) ==
    LET sorted == sort_values_desc(q)
    IN  SubSeq(sorted, 1, IF n < Len(sorted) THEN n ELSE Len(sorted))

\* frequency.series_to_dict
series_to_dict(name, _series, _total_freq_count) ==
    IF _total_freq_count = None
    THEN name :> [frequency |-> _series]
    ELSE name :> [frequency |-> _series, count_uniques |-> _total_freq_count]

\* frequency.flat_dict: the one-column dicts put into one dict
flat_dict(top_n) ==
    LET keys == UNION {DOMAIN top_n[k] : k \in DOMAIN top_n}
        last(c) == CHOOSE k \in DOMAIN top_n :
                      c \in DOMAIN top_n[k] /\ \A m \in DOMAIN top_n : c \in DOMAIN top_n[m] => m <= k
    IN  [c \in keys |-> top_n[last(c)][c]]

\* the integer nearest to num / den, a tie going to the even one
RoundHalfEven(num, den) ==
    LET q == num \div den
        r == num % den
    IN  IF 2 * r > den THEN q + 1
        ELSE IF 2 * r < den THEN q
        ELSE IF q % 2 = 0 THEN q ELSE q + 1

\* a percentage that cuts the digits after the second decimal off
percentage_truncated(count, _total_rows) == (count * 10000) \div _total_rows

\* round(count * 100 / _total_rows, 2), in hundredths of a percent
percentage(count, _total_rows) == RoundHalfEven(count * 10000, _total_rows)

\* frequency.freq_percentage
freq_percentage(_value_counts, _total_rows) ==
    [c \in DOMAIN _value_counts |->
        [_value_counts[c] EXCEPT !.frequency =
            [k \in DOMAIN @ |->
                [value |-> @[k].value, count |-> @[k].count,
                 percentage |-> percentage(@[k].count, _total_rows)]]]]

\* frequency, for one column, up to series_to_dict
top_n_of(table, dtypes, col_name, n) ==
    LET converted == [p \in DOMAIN table |-> assign_str(dtypes, table[p])]
    IN  series_to_dict(col_name, nlargest(value_counts(converted, col_name), n), None)

\* frequency with compute=True, on a table
frequency(table, dtypes, columns, n, pct) ==
    LET c == flat_dict([k \in DOMAIN columns |-> top_n_of(table, dtypes, columns[k], n)])
    IN  IF pct THEN freq_percentage(c, Len(Flatten(table))) ELSE c

FreqRows == {r \in [Range(FreqCols) -> UNION Range(FreqDomain)] :
                \A c \in Range(FreqCols) : r[c] \in FreqDomain[c]}

\* the ways to give each of `slots` places a count, the counts adding up to at most total
RECURSIVE Counts(_, _)
Counts(slots, total) ==
    IF slots = 0 THEN {<<>>}
    ELSE UNION {{<<c>> \o rest : rest \in Counts(slots - 1, total - c)} : c \in 0..total}

\* k rows that hold v in column a (and None in column s)
RECURSIVE Repeat(_, _)
Repeat(v, k) == IF k = 0 THEN <<>> ELSE <<[a |-> v, s |-> None]>> \o Repeat(v, k - 1)

\* the values of column a, in order
FreqValues == <<Num(1), Num(2), Num(3)>>

\* the partition that holds cs[1] rows of the first value, cs[2] of the second, ...
RECURSIVE PartitionOf(_)
PartitionOf(cs) ==
    IF cs = <<>> THEN <<>>
    ELSE PartitionOf(SubSeq(cs, 1, Len(cs) - 1)) \o Repeat(FreqValues[Len(cs)], cs[Len(cs)])

\* the tables handed to frequency: the tables of at most MaxRows rows in
\* every partitioning, and the tables of at most MaxFreqRows rows (enough rows
\* for percentages that round up) in one partition, in the order of column a
FreqTables ==
    TablesUpTo(FreqRows, MaxRows)
        \cup {<<PartitionOf(cs)>> : cs \in Counts(Len(FreqValues), MaxFreqRows)}

InitFreq ==
    /\ df \in FreqTables
    /\ \E cl \in {FreqCols}, n \in 1..MaxN, pct \in BOOLEAN :
          /\ args = [op |-> "frequency", columns |-> cl, n |-> n, percentage |-> pct]
          /\ partials = [k \in DOMAIN cl |-> Pending]
    /\ result = NoResult
    /\ pc = "run"
    /\ IdleCast
    /\ IdleTbl

\* the value_counts, nlargest and series_to_dict nodes of the k-th column
RunTopN(k) ==
    /\ pc = "run"
    /\ args.op = "frequency"
    /\ partials[k] = Pending
    /\ partials' = [partials EXCEPT ![k] = top_n_of(df, FreqDtypes, args.columns[k], args.n)]
    /\ UNCHANGED <<df, args, result, pc, castVars, tblVars>>

\* flat_dict runs once every column is done; without percentage its result is returned
RunFlatDict ==
    /\ pc = "run"
    /\ args.op = "frequency"
    /\ \A k \in DOMAIN partials : partials[k] # Pending
    /\ result' = flat_dict(partials)
    /\ pc' = IF args.percentage THEN "flat" ELSE "done"
    /\ UNCHANGED <<df, args, partials, castVars, tblVars>>

\* freq_percentage(c, delayed(len)(df)); its result is returned
RunFreqPercentage ==
    /\ pc = "flat"
    /\ args.op = "frequency"
    /\ result' = freq_percentage(result, Len(Flatten(df)))
    /\ pc' = "done"
    /\ UNCHANGED <<df, args, partials, castVars, tblVars>>

NextFreq ==
    \/ \E k \in DOMAIN partials : RunTopN(k)
    \/ RunFlatDict
    \/ RunFreqPercentage

SpecFreq == InitFreq /\ [][NextFreq]_vars

\* the rows of the table as frequency counts them: non-numeric columns as strings
ConvertedRows == assign_str(FreqDtypes, AllRows(df))

\* the number of rows of the whole table that hold v in column c
CountOf(c, v) == Cardinality({i \in DOMAIN ConvertedRows : ConvertedRows[i][c] = v})

\* the distinct non-null values of column c of the whole table
DistinctOf(c) == {ConvertedRows[i][c] : i \in {k \in DOMAIN ConvertedRows : ~isnull(ConvertedRows[k][c])}}

\* the entries frequency returned for column c
Entries(c) == result[c].frequency

\* the table with two of its partitions exchanged
SwapParts(table, i, j) == Swap(table, i, j)

\* C8 as the specification states it: with percentage enabled every returned
\* percentage is count * 100 / total rows rounded to 2 decimals, the returned
\* percentages of a column sum to at most 100, and to 100 only when n is at
\* least the number of distinct values.
C8_PercentagesSumToAtMost100 ==
    (args.op = "frequency" /\ pc = "done" /\ args.percentage) =>
        \A c \in DOMAIN result :
            LET total == Len(AllRows(df))
                sum == SumSeq([k \in DOMAIN Entries(c) |-> Entries(c)[k].percentage])
            IN  /\ \A k \in DOMAIN Entries(c) :
                      Entries(c)[k].percentage = RoundHalfEven(Entries(c)[k].count * 10000, total)
                /\ sum <= 10000
                /\ sum = 10000 => args.n >= Cardinality(DistinctOf(c))

\* C8, amended: with percentage enabled every returned percentage is the
\* hundredth of a percent nearest to count * 100 / total rows; the returned
\* counts of a column sum to at most the row count; and the returned
\* percentages sum to at most 100 plus 0.005 for each returned entry (the
\* rounding can lift the sum above 100).
C8_PercentagesRoundedSumWithinRounding ==
    (args.op = "frequency" /\ pc = "done" /\ args.percentage) =>
        \A c \in DOMAIN result :
            LET total == Len(AllRows(df))
                sum == SumSeq([k \in DOMAIN Entries(c) |-> Entries(c)[k].percentage])
                counts == SumSeq([k \in DOMAIN Entries(c) |-> Entries(c)[k].count])
            IN  /\ \A k \in DOMAIN Entries(c) :
                      LET d == Entries(c)[k].percentage * total - Entries(c)[k].count * 10000
                      IN  /\ 2 * d <= total
                          /\ -2 * d <= total
                          /\ Entries(c)[k].count = CountOf(c, Entries(c)[k].value)
                /\ counts <= total
                /\ 2 * sum <= 20000 + Len(Entries(c))

\* six rows, three values counted 1, 1 and 4, all returned: 16.67 + 16.67 + 66.67
C8_Witness ==
    /\ args.op = "frequency" /\ pc = "done" /\ args.percentage
    /\ Len(AllRows(df)) = 6
    /\ Len(Entries("a")) = 3
    /\ SumSeq([k \in DOMAIN Entries("a") |-> Entries("a")[k].percentage]) = 10001

-----------------------------------------------------------------------------
(* Transforms: qcut, find and set.  A table is the object the caller       *)
(* holds: its column order, its partitions of rows and its Metadata        *)
(* Record.  An item assignment on a frame changes that object; assign      *)
(* builds another frame.                                                   *)

\* the columns of the transformed table, in table order
TransformCols == <<"a", "s">>

TransformDtypes == [a |-> "int", s |-> "string"]

\* the cell values each column may hold
TransformDomain == [a |-> {NaN, Num(1), Num(2)}, s |-> {Str(<<"X", "x">>)}]

TransformRows == [a : TransformDomain["a"], s : TransformDomain["s"]]

\* the Metadata Record a table may carry before the call: the entries in the
\* order in which they were recorded
TransformMetas == {<<>>, <<[column |-> "a", action |-> "CAST"]>>}

\* the tables handed to a transform
TransformTables ==
    {[columns |-> TransformCols, parts |-> parts, meta |-> meta] :
        parts \in Tables(TransformRows), meta \in TransformMetas}

\* a cell that holds a list, and the bucket pd.qcut puts a number in (the
\* code-th interval between the quantile edges)
List(q) == [t |-> "list", n |-> 0, s |-> q]
Interval(code) == [t |-> "interval", n |-> code, s |-> <<>>]

\* frame[col_name] = values: the frame object itself gets the column,
\* an existing column in its place and a new one after the last
setitem(frame, col_name, values) ==
    [columns |-> IF col_name \in Range(frame.columns) THEN frame.columns
                 ELSE Append(frame.columns, col_name),
     parts |-> [p \in DOMAIN frame.parts |-> [i \in DOMAIN frame.parts[p] |->
                  [c \in (DOMAIN frame.parts[p][i]) \cup {col_name} |->
                      IF c = col_name THEN values[p][i] ELSE frame.parts[p][i][c]]]],
     meta |-> frame.meta]

\* DataFrame.assign(col_name=values): another frame with the column, the
\* frame it is called on untouched
assign(frame, col_name, values) == setitem(frame, col_name, values)

\* the column col_name of a frame, partition by partition
getitem(frame, col_name) ==
    [p \in DOMAIN frame.parts |-> [i \in DOMAIN frame.parts[p] |-> frame.parts[p][i][col_name]]]

\* numbers in ascending order
Sorted(q) ==
    [k \in DOMAIN q |->
        q[CHOOSE i \in DOMAIN q :
            Cardinality({j \in DOMAIN q : q[j] < q[i] \/ (q[j] = q[i] /\ j < i)}) = k - 1]]

\* Series.quantile(k / q) of the sorted numbers xs, times q: linear
\* interpolation between the two nearest ranks
quantile(xs, k, q) ==
    LET h == (Len(xs) - 1) * k
        lo == h \div q
        rem == h % q
    IN  IF rem = 0 THEN xs[lo + 1] * q
        ELSE xs[lo + 1] * q + (xs[lo + 2] - xs[lo + 1]) * rem

\* pd.qcut(values, q) on the values of one partition: the quantile edges of
\* the partition's numbers, each number in the bucket (lo, hi] it falls in,
\* the smallest in the first; edges that repeat raise
pd_qcut(values, q) ==
    LET kept == SelectSeq(values, LAMBDA v : v.t = "num")
        xs == Sorted([i \in DOMAIN kept |-> kept[i].n])
        bins == [k \in 1..(q + 1) |-> quantile(xs, k - 1, q)]
        ids(x) == IF x * q = bins[1] THEN 1
                  ELSE Cardinality({k \in DOMAIN bins : bins[k] < x * q})
    IN  IF xs = <<>> \/ \E k \in 1..q : bins[k] = bins[k + 1]
        THEN Raised("ValueError", values)
        ELSE Returned([i \in DOMAIN values |->
                 IF values[i].t = "num" THEN Interval(ids(values[i].n) - 1) ELSE NaN])

\* df[columns].map_partitions(pd.qcut, num_buckets), column by column
qcut_partitions(frame, col_name, num_buckets) ==
    [p \in DOMAIN frame.parts |-> pd_qcut(getitem(frame, col_name)[p], num_buckets)]

\* qcut: df[columns] = ..., on the frame the caller holds
RECURSIVE qcut_setitem(_, _, _)
qcut_setitem(frame, columns, num_buckets) ==
    IF columns = <<>> THEN frame
    ELSE LET out == qcut_partitions(frame, Head(columns), num_buckets)
         IN  qcut_setitem(setitem(frame, Head(columns), [p \in DOMAIN out |-> out[p].value]),
                          Tail(columns), num_buckets)

\* str.lower()
lower(chars) == [i \in DOMAIN chars |-> IF chars[i] = "X" THEN "x" ELSE chars[i]]

\* whether the literal pattern pat matches chars at the place pos
MatchesAt(chars, pos, pat) ==
    /\ pos + Len(pat) - 1 <= Len(chars)
    /\ SubSeq(chars, pos, pos + Len(pat) - 1) = pat

\* regex.finditer of an alternation of literal patterns: at each place the
\* first alternative that matches, matches not overlapping; [start, end]
\* counted from 0
RECURSIVE finditer(_, _, _)
finditer(chars, pos, alternatives) ==
    IF pos > Len(chars) THEN <<>>
    ELSE LET hits == {k \in DOMAIN alternatives : MatchesAt(chars, pos, alternatives[k])}
         IN  IF hits = {} THEN finditer(chars, pos + 1, alternatives)
             ELSE LET pat == alternatives[SetMin(hits)]
                  IN  <<<<pos - 1, pos - 1 + Len(pat)>>>>
                          \o finditer(chars, pos + Len(pat), alternatives)

\* find.get_match_positions
get_match_positions(_value, _separator, ignore_case) ==
    IF _value.t # "str" THEN None
    ELSE LET seps == IF ignore_case
                     THEN _separator \o [k \in DOMAIN _separator |-> lower(_separator[k])]
                     ELSE _separator
             length == finditer(_value.s, 1, seps)
         IN  IF Len(length) > 0 THEN List(length) ELSE None

\* find: the loop over the columns, each adding its __match_positions__
\* column to dfd
RECURSIVE find_loop(_, _, _, _)
find_loop(dfd, columns, sub, ignore_case) ==
    IF columns = <<>> THEN dfd
    ELSE LET col_name == Head(columns)
             column == getitem(dfd, col_name)
             positions == [p \in DOMAIN column |-> [i \in DOMAIN column[p] |->
                              get_match_positions(column[p][i], sub, ignore_case)]]
         IN  find_loop(setitem(dfd, col_name \o "__match_positions__", positions),
                       Tail(columns), sub, ignore_case)

\* set_func with a constant value and no where: the value for every row
set_func(frame, value) ==
    [p \in DOMAIN frame.parts |-> [i \in DOMAIN frame.parts[p] |-> value]]

\* meta.preserve(table, action, output_cols): a table that carries the
\* Metadata Record with the entry added; the table given is not modified
preserve(frame, action, output_cols) ==
    [frame EXCEPT !.meta = Append(@, [column |-> output_cols, action |-> action])]

\* set: the result of preserve is dropped, and assign builds the returned frame
set(frame, value, output_cols) ==
    LET final_value == set_func(frame, value)
        preserved == preserve(frame, "SET", output_cols)
    IN  assign(frame, output_cols, final_value)

\* the calls of the model
TransformCalls ==
    {[op |-> "qcut", columns |-> <<"a">>, num_buckets |-> b] : b \in 2..MaxBuckets}
        \cup {[op |-> "find", columns |-> cl, sub |-> <<<<"X">>>>, ignore_case |-> ic] :
                 cl \in {<<"s">>, <<"a", "s">>}, ic \in BOOLEAN}
        \cup {[op |-> "set", value |-> Num(0), output_cols |-> oc] : oc \in {"a", "c"}}

InitTransform ==
    /\ tbl \in TransformTables
    /\ args \in TransformCalls
    /\ ret = NoResult
    /\ pc = "run"
    /\ df = <<>> /\ partials = <<>> /\ result = NoResult
    /\ IdleCast

\* qcut: map_partitions(pd.qcut, ...) either raises (while dask infers the
\* result's columns, or in a partition whose edges repeat) and the call
\* fails before the assignment, or the assignment changes df and df is returned
Qcut ==
    /\ pc = "run"
    /\ args.op = "qcut"
    /\ LET columns == parse_columns(TransformDtypes, args.columns, Range(TransformDtypes))
       IN  \/ /\ pc' = "failed"
              /\ UNCHANGED <<tbl, ret>>
           \/ /\ \A c \in Range(columns), p \in DOMAIN tbl.parts :
                     qcut_partitions(tbl, c, args.num_buckets)[p].ok
              /\ tbl' = qcut_setitem(tbl, columns, args.num_buckets)
              /\ ret' = tbl'
              /\ pc' = "done"
    /\ UNCHANGED <<df, args, partials, result, castVars>>

\* find: dfd is df.data, the frame of the table passed in
Find ==
    /\ pc = "run"
    /\ args.op = "find"
    /\ LET columns == parse_columns(TransformDtypes, args.columns, Range(TransformDtypes))
       IN  tbl' = find_loop(tbl, columns, args.sub, args.ignore_case)
    /\ ret' = tbl'
    /\ pc' = "done"
    /\ UNCHANGED <<df, args, partials, result, castVars>>

Set ==
    /\ pc = "run"
    /\ args.op = "set"
    /\ ret' = set(tbl, args.value, args.output_cols)
    /\ pc' = "done"
    /\ UNCHANGED <<tbl, df, args, partials, result, castVars>>

NextTransform ==
    \/ Qcut
    \/ Find
    \/ Set

SpecTransform == InitTransform /\ [][NextTransform]_vars

\* C10: no call of qcut, find or set changes the table the caller passed in:
\* its columns, values and metadata are after every step what they were before
C10_InputTableUnchanged == [][tbl' = tbl]_vars

-----------------------------------------------------------------------------
(* Metadata lineage: cast and impute called one after the other, each on   *)
(* the table the call before it returned.                                  *)

\* the most calls of one pipeline
MaxCalls == 2
\* the most rows of a table handed to a pipeline, over all its partitions
MaxPipeRows == 2

\* the tables a pipeline starts from: no metadata recorded yet
LineageTables ==
    {[columns |-> TransformCols, parts |-> parts, meta |-> <<>>] :
        parts \in TablesUpTo(TransformRows, MaxPipeRows)}

\* get_output_cols(input_cols, output_cols): the output columns given, or
\* the input columns themselves when none is given (<<>> stands for None)
get_output_cols(input_cols, output_cols) ==
    IF output_cols = <<>> THEN input_cols ELSE output_cols

\* the values of a whole column, partition after partition
ColumnValues(frame, col_name) == Flatten(getitem(frame, col_name))

\* cast.func on the partitions: every input column through cast_func into
\* its output column; the first value that raises ends the call
RECURSIVE cast_columns(_, _, _, _, _)
cast_columns(frame, input_cols, output_cols, dtype, on_error) ==
    IF input_cols = <<>> THEN Returned(frame)
    ELSE LET column == getitem(frame, Head(input_cols))
             out == [p \in DOMAIN column |-> apply(column[p], dtype, on_error, <<>>)]
         IN  IF \E p \in DOMAIN out : out[p].err # NoError
             THEN Raised("NameError", Head(input_cols))
             ELSE cast_columns(assign(frame, Head(output_cols), [p \in DOMAIN out |-> out[p].out]),
                               Tail(input_cols), Tail(output_cols), dtype, on_error)

\* cast: df.map_partitions(func, ...) is returned as it is; no metadata
\* action is recorded
cast(frame, input_cols, dtype, output_cols, on_error) ==
    LET cols == parse_columns(TransformDtypes, input_cols, Range(TransformDtypes))
    IN  cast_columns(frame, cols, get_output_cols(cols, output_cols), dtype, on_error)

\* the value that occurs most often, the smallest of them on a tie
most_frequent(values) ==
    LET kept == SelectSeq(values, LAMBDA v : ~isnull(v))
        occurs(v) == Cardinality({i \in DOMAIN kept : kept[i] = v})
    IN  CHOOSE v \in Range(kept) :
            \A u \in Range(kept) :
                occurs(u) < occurs(v) \/ (occurs(u) = occurs(v) /\ (u = v \/ ValueLess(v, u)))

\* SimpleImputer(strategy).fit_transform on one column: the nulls replaced
\* by the fitted statistic, the other values and the row count kept
fit_transform(values, column, strategy) ==
    LET fill == IF strategy = "most_frequent"
                THEN (IF \A i \in DOMAIN values : isnull(values[i]) THEN NaN
                      ELSE most_frequent(values))
                ELSE IF \E i \in DOMAIN values : values[i].t = "str"
                     THEN Str(<<"m", "i", "s", "s", "i", "n", "g", "_", "v", "a", "l", "u", "e">>)
                     ELSE Num(0)
    IN  [i \in DOMAIN column |-> IF isnull(column[i]) THEN fill ELSE column[i]]

\* meta.set(table, action, output_cols): the Metadata Record with one entry
\* more, recorded against each output column
RECURSIVE meta_set(_, _, _)
meta_set(frame, action, output_cols) ==
    IF output_cols = <<>> THEN frame
    ELSE meta_set([frame EXCEPT !.meta = Append(@, [column |-> Head(output_cols),
                                                     action |-> action])],
                  action, Tail(output_cols))

\* df.cols.apply(input_cols, func, output_cols=..., meta_action=...): each
\* input column through func into its output column
RECURSIVE cols_apply_loop(_, _, _, _)
cols_apply_loop(frame, input_cols, output_cols, strategy) ==
    IF input_cols = <<>> THEN frame
    ELSE LET column == getitem(frame, Head(input_cols))
             whole == ColumnValues(frame, Head(input_cols))
         IN  cols_apply_loop(
                 assign(frame, Head(output_cols),
                        [p \in DOMAIN column |-> fit_transform(whole, column[p], strategy)]),
                 Tail(input_cols), Tail(output_cols), strategy)

\* impute: df.cols.apply(input_cols, _imputer, output_cols=output_cols,
\* meta_action=Actions.IMPUTE.value)
impute(frame, input_cols, strategy, output_cols) ==
    LET cols == parse_columns(TransformDtypes, input_cols, Range(TransformDtypes))
        outs == get_output_cols(cols, output_cols)
    IN  meta_set(cols_apply_loop(frame, cols, outs, strategy), "IMPUTE", outs)

\* the calls of a pipeline
CastCalls ==
    {[op |-> "cast", input_cols |-> <<c>>, dtype |-> "int", output_cols |-> oc, on_error |-> oe] :
        c \in Range(TransformCols), oc \in {<<>>, <<"c">>}, oe \in {"nan", "raise"}}

ImputeCalls ==
    {[op |-> "impute", input_cols |-> <<c>>, strategy |-> st, output_cols |-> <<>>] :
        c \in Range(TransformCols), st \in {"most_frequent", "constant"}}

InitLineage ==
    /\ tbl \in LineageTables
    /\ args = <<>>
    /\ ret = NoResult
    /\ pc = "run"
    /\ df = <<>> /\ partials = <<>> /\ result = NoResult
    /\ IdleCast

\* the caller casts a column of the table it holds and keeps what is returned
CallCast(c) ==
    /\ pc = "run"
    /\ Len(args) < MaxCalls
    /\ args' = Append(args, c)
    /\ LET r == cast(tbl, c.input_cols, c.dtype, c.output_cols, c.on_error)
       IN  \/ /\ r.ok
              /\ tbl' = r.value
              /\ ret' = r.value
              /\ pc' = "run"
           \/ /\ ~r.ok
              /\ pc' = "failed"
              /\ UNCHANGED <<tbl, ret>>
    /\ UNCHANGED <<df, partials, result, castVars>>

\* the caller imputes a column of the table it holds and keeps what is returned
CallImpute(c) ==
    /\ pc = "run"
    /\ Len(args) < MaxCalls
    /\ args' = Append(args, c)
    /\ tbl' = impute(tbl, c.input_cols, c.strategy, c.output_cols)
    /\ ret' = tbl'
    /\ UNCHANGED <<pc, df, partials, result, castVars>>

NextLineage ==
    \/ \E c \in CastCalls : CallCast(c)
    \/ \E c \in ImputeCalls : CallImpute(c)

SpecLineage == InitLineage /\ [][NextLineage]_vars

\* the Metadata Record of the table holds an entry of the action under the column
HasEntry(frame, col_name, action) ==
    \E i \in DOMAIN frame.meta :
        frame.meta[i].column = col_name /\ frame.meta[i].action = action

\* C11: after cast on column A and then impute on another column B, both
\* successful, the table's Metadata Record holds a CAST entry under A's
\* output column and an IMPUTE entry under B's output column
C11_CastThenImputeRecordsBoth ==
    (/\ pc = "run"
     /\ Len(args) = 2
     /\ args[1].op = "cast" /\ args[2].op = "impute"
     /\ args[1].input_cols # args[2].input_cols)
        => /\ \A c \in Range(get_output_cols(args[1].input_cols, args[1].output_cols)) :
                 HasEntry(tbl, c, "CAST")
           /\ \A c \in Range(get_output_cols(args[2].input_cols, args[2].output_cols)) :
                 HasEntry(tbl, c, "IMPUTE")

-----------------------------------------------------------------------------
(* string_to_index and index_to_string, as the methods of DaskBaseColumns  *)
(* (each makes its own LabelEncoder) and as the common functions (the      *)
(* caller passes the encoder le, or passes none).                          *)

IndexCols == <<"s">>
IndexDtypes == [s |-> "string", i |-> "int", r |-> "string"]

\* the cell values of the label column
IndexDomain == [s |-> {None, Str(<<"a">>), Str(<<"x">>)}]

IndexRows == [s : IndexDomain["s"]]

IndexTables ==
    {[columns |-> IndexCols, parts |-> parts, meta |-> <<>>] :
        parts \in TablesUpTo(IndexRows, MaxPipeRows)}

\* a LabelEncoder that has not been fitted: it has no classes_
Unfitted == [fitted |-> FALSE, classes_ |-> <<>>]
Fitted(classes_) == [fitted |-> TRUE, classes_ |-> classes_]

\* LabelEncoder.fit: classes_ is the distinct labels in their order
le_fit(values) ==
    LET keys == Range(values)
    IN  [k \in 1..Cardinality(keys) |-> CHOOSE v \in keys : RankKey(keys, v) = k]

\* LabelEncoder.transform: the place of each label in classes_, from 0
le_transform(classes_, values) ==
    [j \in DOMAIN values |-> Num((CHOOSE k \in DOMAIN classes_ : classes_[k] = values[j]) - 1)]

\* LabelEncoder.inverse_transform: the label at each index; an encoder
\* without classes_ raises NotFittedError, an index it does not know ValueError
le_inverse_transform(le, values) ==
    IF ~le.fitted THEN Raised("NotFittedError", values)
    ELSE IF \E j \in DOMAIN values :
               ~(values[j].t = "num" /\ values[j].n \in 0..(Len(le.classes_) - 1))
         THEN Raised("ValueError", values)
    ELSE Returned([j \in DOMAIN values |-> le.classes_[values[j].n + 1]])

\* the column cut again at the partitions of the frame
Repartition(frame, values) ==
    [p \in DOMAIN frame.parts |->
        SubSeq(values, Len(Flatten(SubSeq(frame.parts, 1, p - 1))) + 1,
                       Len(Flatten(SubSeq(frame.parts, 1, p))))]

\* _string_to_index: le.fit_transform(value.astype(str)); gives the codes
\* and the classes_ the encoder has afterwards
_string_to_index(value) ==
    LET labels == [j \in DOMAIN value |-> astype_str(value[j])]
        classes_ == le_fit(labels)
    IN  [codes |-> le_transform(classes_, labels), classes_ |-> classes_]

\* string_to_index: df.cols.apply(..., meta_action=Actions.STRING_TO_INDEX.value)
string_to_index(frame, input_col, output_col) ==
    LET fitted == _string_to_index(ColumnValues(frame, input_col))
    IN  [table |-> meta_set(assign(frame, output_col, Repartition(frame, fitted.codes)),
                            "STRING_TO_INDEX", <<output_col>>),
         classes_ |-> fitted.classes_]

\* index_to_string with the encoder le
index_to_string(frame, input_col, output_col, le) ==
    LET r == le_inverse_transform(le, ColumnValues(frame, input_col))
    IN  IF r.ok
        THEN Returned(meta_set(assign(frame, output_col, Repartition(frame, r.value)),
                               "INDEX_TO_STRING", <<output_col>>))
        ELSE r

\* the calls: impl says which implementation is called, le whether the
\* caller passes its encoder to the common function (the methods take none)
StringToIndexCalls ==
    {[op |-> "string_to_index", impl |-> im[1], le |-> im[2], input_col |-> "s", output_col |-> oc] :
        im \in {<<"method", FALSE>>, <<"function", FALSE>>, <<"function", TRUE>>},
        oc \in {"s", "i"}}

IndexToStringCalls ==
    {[op |-> "index_to_string", impl |-> im[1], le |-> im[2], input_col |-> ic, output_col |-> "r"] :
        im \in {<<"method", FALSE>>, <<"function", FALSE>>, <<"function", TRUE>>},
        ic \in {"s", "i"}}

\* partials keeps the encoder the caller holds
InitIndex ==
    /\ tbl \in IndexTables
    /\ df = tbl.parts
    /\ args = <<>>
    /\ partials = Unfitted
    /\ ret = NoResult
    /\ pc = "run"
    /\ result = NoResult
    /\ IdleCast

\* string_to_index on the table the caller holds.  The method fits an
\* encoder of its own, the function the one it is given: le=None has no
\* fit_transform
StringToIndex(c) ==
    /\ pc = "run"
    /\ Len(args) < MaxCalls
    /\ c.input_col \in Range(tbl.columns)
    /\ args' = Append(args, c)
    /\ \/ /\ c.impl = "function" /\ ~c.le
          /\ pc' = "failed"
          /\ UNCHANGED <<tbl, ret, partials>>
       \/ /\ c.impl = "method" \/ c.le
          /\ LET r == string_to_index(tbl, c.input_col, c.output_col)
             IN  /\ tbl' = r.table
                 /\ ret' = r.table
                 /\ partials' = IF c.impl = "function" THEN Fitted(r.classes_) ELSE partials
          /\ pc' = "run"
    /\ UNCHANGED <<df, result, castVars>>

\* index_to_string on the table the caller holds.  The method makes a new
\* LabelEncoder and calls inverse_transform on it at once; the function
\* uses the encoder it is given
IndexToString(c) ==
    /\ pc = "run"
    /\ Len(args) < MaxCalls
    /\ c.input_col \in Range(tbl.columns)
    /\ args' = Append(args, c)
    /\ LET le == IF c.impl = "function" /\ c.le THEN partials ELSE Unfitted
           r == index_to_string(tbl, c.input_col, c.output_col, le)
       IN  \/ /\ r.ok
              /\ tbl' = r.value
              /\ ret' = r.value
              /\ pc' = "run"
           \/ /\ ~r.ok
              /\ pc' = "failed"
              /\ UNCHANGED <<tbl, ret>>
    /\ UNCHANGED <<df, partials, result, castVars>>

NextIndex ==
    \/ \E c \in StringToIndexCalls : StringToIndex(c)
    \/ \E c \in IndexToStringCalls : IndexToString(c)

SpecIndex == InitIndex /\ [][NextIndex]_vars

\* the calls so far are string_to_index on the label column and then
\* index_to_string on the column it wrote, and the labels are strings, none null
RoundTripCalled ==
    /\ Len(args) = 2
    /\ args[1].op = "string_to_index" /\ args[2].op = "index_to_string"
    /\ args[1].impl = args[2].impl
    /\ args[2].input_col = args[1].output_col
    /\ \A j \in DOMAIN Flatten(df) : Flatten(df)[j]["s"].t = "str"

\* C12: string_to_index followed by index_to_string on a column of string
\* labels without nulls succeeds and gives back the original column values
C12_RoundTripReturnsLabels ==
    RoundTripCalled
        => /\ pc = "run"
           /\ ColumnValues(tbl, args[2].output_col)
                 = [j \in DOMAIN Flatten(df) |-> Flatten(df)[j]["s"]]

-----------------------------------------------------------------------------
(* compute=False: count_mismatch, frequency and hist return the delayed    *)
(* node they built instead of computing it; the caller materializes the    *)
(* node later, any number of times.  A node keeps what its closures share: *)
(* for count_mismatch the dict init of the enclosing call.                 *)

\* the most times a deferred node is materialized
MaxMaterialize == 2

\* a delayed node: the graph of the call op, and the init its tasks share
Delayed(op, shared) == [t |-> "delayed", op |-> op, init |-> shared]

\* the node a call builds
NewNode(call) == Delayed(call.op, IF call.op = "count_mismatch" THEN init ELSE NoResult)

IsNode(x) == DOMAIN x = {"t", "op", "init"}

\* a count_dtypes task that hands init itself to update_dict, which then
\* writes the partition's tallies into the shared dict
count_dtypes_task_nocopy(shared, _df, _col_name, _dtype) ==
    LET mapped == [i \in DOMAIN _df |-> _func(_dtype, _df[i][_col_name])]
        counts == value_counts_dict(mapped)
        r == [k \in DOMAIN shared |-> IF k \in DOMAIN counts THEN shared[k] + counts[k]
                                      ELSE shared[k]]
    IN  [value |-> _col_name :> [mismatch |-> r[0], missing |-> r[1], match |-> r[2]],
         init |-> r]

\* a count_dtypes task of a node: it reads the shared init and works on
\* init.copy(), so the shared dict is as it was when the task ends
count_dtypes_task(shared, _df, _col_name, _dtype) ==
    LET mapped == [i \in DOMAIN _df |-> _func(_dtype, _df[i][_col_name])]
        copy == shared
        r == update_dict(copy, value_counts_dict(mapped))
    IN  [value |-> _col_name :> [mismatch |-> r[0], missing |-> r[1], match |-> r[2]],
         init |-> shared]

\* the tasks of delayed_parts run one after the other from task t on, each
\* reading the shared init the one before it left
RECURSIVE run_delayed_parts(_, _, _, _, _)
run_delayed_parts(shared, table, columns_mismatch, t, done) ==
    LET ncols == Len(columns_mismatch)
    IN  IF t > Len(table) * ncols THEN [values |-> done, init |-> shared]
        ELSE LET r == count_dtypes_task(shared, table[TaskPart(ncols, t)],
                                        columns_mismatch[TaskCol(ncols, t)][1],
                                        columns_mismatch[TaskCol(ncols, t)][2])
             IN  run_delayed_parts(r.init, table, columns_mismatch, t + 1,
                                   Append(done, r.value))

\* hist with compute=True, on a table: the graph of bins_col, the _hist
\* tasks in list order and _agg_hist
hist(table, columns, buckets) ==
    LET _bins == bins_col(table, columns, buckets)
        ncols == Len(columns)
        c == [t \in 1..(Len(table) * ncols) |->
                _hist(table[TaskPart(ncols, t)], columns[TaskCol(ncols, t)], _bins)]
    IN  _agg_hist(c, buckets)

\* node.compute(): the whole graph runs; gives the result and the node as
\* the run leaves it
compute(node, table, call) ==
    CASE node.op = "count_mismatch" ->
            LET r == run_delayed_parts(node.init, table, call.columns_mismatch, 1, <<>>)
            IN  [value |-> merge(r.values), node |-> [node EXCEPT !.init = r.init]]
      [] node.op = "frequency" ->
            [value |-> frequency(table, FreqDtypes, call.columns, call.n, call.percentage),
             node |-> node]
      [] node.op = "hist" ->
            [value |-> hist(table, call.columns, call.buckets), node |-> node]

\* a call that computes whatever compute says
returned_computed(node, table, call) == compute(node, table, call).value

\* if compute is True: result = c.compute() else: result = c
returned(node, table, call) ==
    IF call.compute THEN compute(node, table, call).value ELSE node

\* the tables of the deferred calls: at most MaxPipeRows rows
DeferredTables(Rows) == TablesUpTo(Rows, MaxPipeRows)

InitDeferred ==
    /\ \E cp \in BOOLEAN :
          \/ /\ df \in DeferredTables(MismatchRows)
             /\ \E cm \in OrderedDicts(MismatchCols, MismatchDtypes) :
                   args = [op |-> "count_mismatch", compute |-> cp, columns_mismatch |-> cm]
          \/ /\ df \in DeferredTables(FreqRows)
             /\ \E n \in 1..MaxN, pct \in BOOLEAN :
                   args = [op |-> "frequency", compute |-> cp, columns |-> FreqCols, n |-> n,
                           percentage |-> pct]
          \/ /\ df \in {t \in DeferredTables(HistRows) :
                          \A c \in {"a", "b"} : Numbers(Flatten(t), c) # {}}
             /\ \E cl \in HistColumnLists, b \in 2..MaxBuckets :
                   args = [op |-> "hist", compute |-> cp, asked |-> cl,
                           columns |-> parse_columns(HistDtypes, cl, NUMERIC_TYPES),
                           buckets |-> b]
    /\ partials = <<>>
    /\ result = NoResult
    /\ ret = <<>>
    /\ tbl = NoResult
    /\ pc = "run"
    /\ IdleCast

\* the call builds its graph and returns: the computed result, or the node
CallAggregation ==
    /\ pc = "run"
    /\ result' = returned(NewNode(args), df, args)
    /\ pc' = "done"
    /\ UNCHANGED <<df, args, partials, ret, tbl, castVars>>

\* the caller materializes the node it was given; ret keeps what each
\* materialization returned
Materialize ==
    /\ pc = "done"
    /\ ~args.compute
    /\ Len(ret) < MaxMaterialize
    /\ LET r == compute(result, df, args)
       IN  /\ ret' = Append(ret, r.value)
           /\ result' = r.node
    /\ UNCHANGED <<df, args, partials, pc, tbl, castVars>>

NextDeferred ==
    \/ CallAggregation
    \/ Materialize

SpecDeferred == InitDeferred /\ [][NextDeferred]_vars

\* what the same call returns with compute=True on the same table
EagerResult == returned(NewNode(args), df, [args EXCEPT !.compute = TRUE])

\* C13: with compute=False the call returns a deferred node and no concrete
\* result, and every materialization of the node gives exactly what the
\* same call returns with compute=True on the same table
C13_DeferredThenMaterializedIsEager ==
    (pc = "done" /\ ~args.compute)
        => /\ IsNode(result)
           /\ \A i \in DOMAIN ret : ret[i] = EagerResult

\* a deferred count_mismatch over two partitions with rows in both has been
\* materialized
C13_Witness ==
    /\ pc = "done" /\ ~args.compute
    /\ args.op = "count_mismatch"
    /\ Len(df) = 2 /\ Len(df[1]) > 0 /\ Len(df[2]) > 0
    /\ Len(ret) >= 1
    /\ ret[1] = count_mismatch(df, args.columns_mismatch)

\* C14: materializing the same node twice returns the same result both
\* times, and the node (with the init dict its tasks share) is after the
\* first materialization what it was before
C14_MaterializeTwiceIdentical ==
    (pc = "done" /\ ~args.compute)
        => /\ Len(ret) >= 1 => result = NewNode(args)
           /\ \A i, j \in DOMAIN ret : ret[i] = ret[j]

\* a frequency with percentage over a table with rows has been materialized twice
C14_Witness ==
    /\ pc = "done" /\ ~args.compute
    /\ args.op = "frequency" /\ args.percentage
    /\ Len(Flatten(df)) >= 2
    /\ Len(ret) = 2
    /\ ret[2] = frequency(df, FreqDtypes, args.columns, args.n, TRUE)

-----------------------------------------------------------------------------
(* hist: the columns it takes and the edges it bins with.                  *)

\* C15: hist asked for a non-numeric column fails before any per-partition
\* task runs: no _hist task ever has a result and the call never returns one
C15_NonNumericColumnFailsBeforeWork ==
    (args.op = "hist" /\ \E c \in Range(args.asked) : HistDtypes[c] \notin NUMERIC_TYPES)
        => /\ pc # "done"
           /\ \A t \in DOMAIN partials : partials[t] = Pending

\* the numbers column c holds, over all partitions
GlobalNumbers(c) ==
    {AllRows(df)[i][c].n : i \in {k \in DOMAIN AllRows(df) : AllRows(df)[k][c].t = "num"}}

-----------------------------------------------------------------------------
(* nest and rename (columns.py 466-499, 679-727). The frames of this       *)
(* section hold their rows by position: columns is the list of column      *)
(* names, a row is the list of its cells in that order, so that a frame    *)
(* can hold two columns of one name, as a pandas frame can.                *)

NestCols == <<"a", "b">>

\* the cell values of the columns a and b
NestDomain == <<{Str(<<"x">>)}, {Num(1), None}>>

NestRows == {<<x, y>> : x \in NestDomain[1], y \in NestDomain[2]}

NestTables ==
    {[columns |-> NestCols, parts |-> parts, meta |-> <<>>] :
        parts \in TablesUpTo(NestRows, MaxPipeRows)}

\* df.cols.names(): a new list of the column names, in the frame's order
names(frame) == frame.columns

\* list.index(x): the first position of x
index(q, x) == CHOOSE i \in DOMAIN q : q[i] = x /\ \A j \in 1..(i - 1) : q[j] # x

\* s + t on strings
concat(u, v) == Str(u.s \o v.s)

\* v = row[input_cols[0]].astype(str); for i in 1..: v = v + separator + row[input_cols[i]].astype(str)
RECURSIVE nest_loop(_, _, _, _, _)
nest_loop(columns, row, input_cols, separator, v) ==
    IF input_cols = <<>> THEN v
    ELSE nest_loop(columns, row, Tail(input_cols), separator,
                   concat(concat(v, Str(separator)),
                          astype_str(row[index(columns, Head(input_cols))])))

_nest_string(columns, row, input_cols, separator) ==
    nest_loop(columns, row, Tail(input_cols), separator,
              astype_str(row[index(columns, Head(input_cols))]))

_nest_array(columns, row, input_cols) ==
    concat(concat(Str(<<"[">>),
                  nest_loop(columns, row, Tail(input_cols), <<",", " ">>,
                            astype_str(row[index(columns, Head(input_cols))]))),
           Str(<<"]">>))

\* df.assign(**{output_col: func}): another frame; the values go in the
\* place of a column of that name, or in a new last column
df_assign(frame, output_col, values) ==
    IF output_col \in Range(frame.columns)
    THEN [frame EXCEPT !.parts =
            [p \in DOMAIN frame.parts |-> [i \in DOMAIN frame.parts[p] |->
                [k \in DOMAIN frame.columns |->
                    IF frame.columns[k] = output_col THEN values[p][i]
                    ELSE frame.parts[p][i][k]]]]]
    ELSE [frame EXCEPT !.columns = Append(@, output_col),
                       !.parts =
            [p \in DOMAIN frame.parts |-> [i \in DOMAIN frame.parts[p] |->
                Append(frame.parts[p][i], values[p][i])]]]

\* df.cols.select(columns): the frame of the columns named, in the order
\* named, a name named twice giving the column twice
select(frame, columns) ==
    LET cols == parse_columns([c \in Range(columns) |-> "object"], columns, {"object"})
    IN  [frame EXCEPT !.columns = cols,
                      !.parts =
            [p \in DOMAIN frame.parts |-> [i \in DOMAIN frame.parts[p] |->
                [k \in DOMAIN cols |-> frame.parts[p][i][index(frame.columns, cols[k])]]]]]

\* nest: output_col is <<>> for None and a list of one name otherwise.
\* meta.preserve is handed list(kw_columns.values()), the function and not
\* the column name: the entry is recorded under the name of the function.
nest(frame, input_cols, shape, separator, output_col) ==
    LET cols == parse_columns([c \in Range(input_cols) |-> "object"], input_cols, {"object"})
    IN  IF output_col = <<>> THEN Raised("TypeError", 0)
        ELSE
            LET output_ordered_columns == names(frame)
                func == IF shape = "string" THEN "_nest_string" ELSE "_nest_array"
                values ==
                    [p \in DOMAIN frame.parts |-> [i \in DOMAIN frame.parts[p] |->
                        IF shape = "string"
                        THEN _nest_string(frame.columns, frame.parts[p][i], cols, separator)
                        ELSE _nest_array(frame.columns, frame.parts[p][i], cols)]]
                assigned == df_assign(frame, output_col[1], values)
                col_index == index(output_ordered_columns, cols[Len(cols)])
                inserted == SubSeq(output_ordered_columns, 1, col_index)
                                \o <<output_col[1]>>
                                \o SubSeq(output_ordered_columns, col_index + 1,
                                          Len(output_ordered_columns))
                preserved == preserve(assigned, "NEST", func)
            IN  Returned(select(preserved, inserted))

\* validate_columns_names(df, columns_old_new): every old name is a column
validate_columns_names(frame, columns_old_new) ==
    \A k \in DOMAIN columns_old_new : columns_old_new[k][1] \in Range(frame.columns)

\* DataFrame.rename(columns={old: new}): every column named old is named
\* new, whether or not the frame has a column named new already
df_rename(frame, old_col_name, new_column) ==
    [frame EXCEPT !.columns =
        [k \in DOMAIN @ |-> IF @[k] = old_col_name THEN new_column ELSE @[k]]]

\* df.meta.rename({old: new}): the entries under old go under new
meta_rename(frame, old_col_name, new_column) ==
    [frame EXCEPT !.meta =
        [k \in DOMAIN @ |->
            IF @[k].column = old_col_name THEN [@[k] EXCEPT !.column = new_column]
            ELSE @[k]]]

\* func(old_col_name) for the string functions of the model, "None" being
\* no function: str.upper and str.lower on the column names of the model
str_func(func, col_name) ==
    CASE func = "upper" ->
            (CASE col_name = "a" -> "A" [] col_name = "b" -> "B"
               [] col_name = "n" -> "N" [] col_name = "z" -> "Z" [] OTHER -> col_name)
      [] func = "lower" ->
            (CASE col_name = "A" -> "a" [] col_name = "B" -> "b"
               [] col_name = "N" -> "n" [] col_name = "Z" -> "z" [] OTHER -> col_name)
      [] OTHER -> col_name

\* the loop of rename over the pairs; old_col_name != col_name compares a
\* name with the pair and is always true, so every pair renames
RECURSIVE rename_loop(_, _, _)
rename_loop(frame, columns_old_new, func) ==
    IF columns_old_new = <<>> THEN frame
    ELSE LET old_col_name == IF func # "None" THEN str_func(func, Head(columns_old_new)[1])
                             ELSE Head(columns_old_new)[1]
             new_column == Head(columns_old_new)[2]
         IN  rename_loop(meta_rename(df_rename(frame, old_col_name, new_column),
                                     old_col_name, new_column),
                         Tail(columns_old_new), func)

\* rename(columns_old_new, func=None): <<>> stands for a columns_old_new
\* that is not a list of tuples, which returns the frame as it is
rename(frame, columns_old_new, func) ==
    IF columns_old_new = <<>> THEN Returned(frame)
    ELSE IF ~validate_columns_names(frame, columns_old_new)
         THEN Raised("UnknownColumnError", 0)
         ELSE Returned(rename_loop(frame, columns_old_new, func))

\* rename(func), the overload of one argument (lines 505-507): rename(None, func)
rename_func(frame, func) == rename(frame, <<>>, func)

\* the calls of the model
NestCalls ==
    {[op |-> "nest", input_cols |-> ic, shape |-> sh, separator |-> <<"-">>, output_col |-> oc] :
        ic \in {<<"a", "b">>, <<"b", "a">>, <<"b">>},
        sh \in {"string", "array"},
        oc \in {<<>>, <<"n">>, <<"a">>}}

RenameCalls ==
    {[op |-> "rename", columns_old_new |-> q, func |-> "None"] :
        q \in {<<>>, <<<<"a", "n">>>>, <<<<"a", "b">>>>, <<<<"n", "a">>>>,
               <<<<"z", "a">>>>, <<<<"a", "b">>, <<"b", "a">>>>}}
        \cup {[op |-> "rename", columns_old_new |-> <<<<"a", "n">>>>, func |-> "upper"]}

\* rename called with a string function alone
RenameFuncCalls == {[op |-> "rename_func", func |-> f] : f \in {"upper", "lower"}}

\* tbl is the table the caller holds, df the one it held before the last
\* call, args the calls made so far, ret what the last call returned
InitNest ==
    /\ tbl \in NestTables
    /\ df = tbl
    /\ args = <<>>
    /\ ret = NoResult
    /\ pc = "run"
    /\ partials = <<>> /\ result = NoResult
    /\ IdleCast

\* the caller nests columns of the table it holds and keeps what is returned
CallNest(c) ==
    /\ pc = "run"
    /\ Len(args) < MaxCalls
    /\ Range(c.input_cols) \subseteq Range(tbl.columns)
    /\ \A k \in DOMAIN tbl.columns : \A j \in DOMAIN tbl.columns :
            tbl.columns[k] = tbl.columns[j] => k = j
    /\ args' = Append(args, c)
    /\ df' = tbl
    /\ LET r == nest(tbl, c.input_cols, c.shape, c.separator, c.output_col)
       IN  \/ /\ r.ok
              /\ tbl' = r.value
              /\ ret' = r.value
              /\ pc' = "run"
           \/ /\ ~r.ok
              /\ pc' = "failed"
              /\ UNCHANGED <<tbl, ret>>
    /\ UNCHANGED <<partials, result, castVars>>

\* the caller renames columns of the table it holds and keeps what is returned
CallRename(c) ==
    /\ pc = "run"
    /\ Len(args) < MaxCalls
    /\ args' = Append(args, c)
    /\ df' = tbl
    /\ LET r == rename(tbl, c.columns_old_new, c.func)
       IN  \/ /\ r.ok
              /\ tbl' = r.value
              /\ ret' = r.value
              /\ pc' = "run"
           \/ /\ ~r.ok
              /\ pc' = "failed"
              /\ UNCHANGED <<tbl, ret>>
    /\ UNCHANGED <<partials, result, castVars>>

\* the caller renames with a string function and keeps what is returned
CallRenameFunc(c) ==
    /\ pc = "run"
    /\ Len(args) < MaxCalls
    /\ args' = Append(args, c)
    /\ df' = tbl
    /\ LET r == rename_func(tbl, c.func)
       IN  /\ r.ok
           /\ tbl' = r.value
           /\ ret' = r.value
    /\ UNCHANGED <<pc, partials, result, castVars>>

NextNest ==
    \/ \E c \in NestCalls : CallNest(c)
    \/ \E c \in RenameCalls : CallRename(c)
    \/ \E c \in RenameFuncCalls : CallRenameFunc(c)

SpecNest == InitNest /\ [][NextNest]_vars

\* no name is in the list twice
UniqueNames(columns) ==
    \A k \in DOMAIN columns : \A j \in DOMAIN columns : columns[k] = columns[j] => k = j

\* the position in the table's column order of the input column that comes last in it
LastInputPosition(columns, input_cols) ==
    CHOOSE p \in DOMAIN columns :
        /\ columns[p] \in Range(input_cols)
        /\ \A j \in DOMAIN columns : columns[j] \in Range(input_cols) => j <= p

\* the last call was a nest that returned, with an output column the table did not have
NestedNewColumn ==
    /\ args # <<>>
    /\ pc = "run"
    /\ args[Len(args)].op = "nest"
    /\ args[Len(args)].output_col # <<>>
    /\ args[Len(args)].output_col[1] \notin Range(df.columns)

\* C17: after nest, the new output column stands immediately after the input
\* column that is last in the table's column order, and the other columns
\* are in the order they had, in whatever order the caller lists the inputs
C17_OutputAfterLastInputColumn ==
    NestedNewColumn =>
        LET c == args[Len(args)]
            p == LastInputPosition(df.columns, c.input_cols)
        IN  ret.columns = SubSeq(df.columns, 1, p) \o <<c.output_col[1]>>
                            \o SubSeq(df.columns, p + 1, Len(df.columns))

\* C18: every table that a sequence of nest and rename calls produces has
\* unique column names
C18_ColumnNamesUnique ==
    (args # <<>> /\ pc = "run") => UniqueNames(ret.columns)


-----------------------------------------------------------------------------
(* A per-partition task that raises (columns.py 44-99, 180-226).           *)
(* count_mismatch given a dict does not pass its keys through              *)
(* parse_columns (lines 46-47): a key that names no column reaches         *)
(* count_dtypes, where _df[_col_name] raises a KeyError in the task.       *)

\* the dicts handed to count_mismatch: "z" names no column of the table
PartialMismatchArgs == OrderedDicts({"a", "z"}, {"int"})

KeyError == [t |-> "KeyError"]
AttributeError == [t |-> "AttributeError"]

\* the column specifications that are not a dict: a name, a list of names,
\* the wildcard
ColumnSpecs ==
    {[kind |-> "name", names |-> <<"a">>], [kind |-> "wildcard", names |-> <<>>]}
        \cup {[kind |-> "list", names |-> q] : q \in {<<"a">>, <<"a", "b">>, <<"b", "a">>}}

\* parse_columns(df, columns_mismatch) on a specification that is not a
\* dict: the list of the columns named, the wildcard naming all of them
parse_spec(spec) ==
    LET dtypes == [c \in MismatchCols |-> "object"]
    IN  IF spec.kind = "wildcard" THEN parse_columns(dtypes, <<"a", "b">>, {"object"})
        ELSE parse_columns(dtypes, spec.names, {"object"})

InitPartial ==
    /\ \/ /\ df \in TablesUpTo(MismatchRows, MaxPipeRows)
          /\ \E cm \in PartialMismatchArgs :
                /\ args = [op |-> "count_mismatch", columns_mismatch |-> cm]
                /\ partials = [t \in 1..(Len(df) * Len(cm)) |-> Pending]
          /\ pc = "run"
       \/ /\ df \in TablesUpTo(MismatchRows, MaxPipeRows)
          /\ \E spec \in ColumnSpecs :
                args = [op |-> "count_mismatch", spec |-> spec,
                        columns_mismatch |-> parse_spec(spec)]
          /\ partials = <<>>
          /\ pc = "call"
       \/ /\ df \in {t \in TablesUpTo(HistRows, MaxPipeRows) :
                        \A c \in {"a", "b"} : Numbers(Flatten(t), c) # {}}
          /\ \E cl \in {<<"a">>, <<"a", "b">>}, b \in 2..MaxBuckets :
                LET columns == parse_columns(HistDtypes, cl, NUMERIC_TYPES)
                IN  /\ args = [op |-> "hist", asked |-> cl, columns |-> columns,
                               buckets |-> b, _bins |-> Pending]
                    /\ partials = [t \in 1..(Len(df) * Len(columns)) |-> Pending]
          /\ pc = "run"
    /\ result = NoResult
    /\ IdleCast
    /\ IdleTbl

\* count_mismatch builds delayed_parts when it is called (lines 74-77), for
\* every partition from columns_mismatch.items(): columns_mismatch is the
\* list parse_columns returned when the caller gave no dict, a list has no
\* items, and the call raises an AttributeError at the first partition
BuildDelayedParts ==
    /\ pc = "call"
    /\ args.op = "count_mismatch"
    /\ Len(df) > 0
    /\ pc' = "failed"
    /\ err' = AttributeError
    /\ UNCHANGED <<df, args, partials, result, series, idx, outcol, tblVars>>

\* the scheduler runs one count_dtypes task, in any order: its result lands
\* in its place of delayed_parts, or it raises, and dd.compute raises what
\* the task raised without running merge
RunCountDtypesTask(t) ==
    /\ pc = "run"
    /\ args.op = "count_mismatch"
    /\ partials[t] = Pending
    /\ LET cm == args.columns_mismatch
           ncols == Len(cm)
           _col_name == cm[TaskCol(ncols, t)][1]
       IN  IF _col_name \in MismatchCols
           THEN /\ partials' = [partials EXCEPT ![t] =
                                   count_dtypes(df[TaskPart(ncols, t)], _col_name,
                                                cm[TaskCol(ncols, t)][2])]
                /\ UNCHANGED <<pc, err>>
           ELSE /\ pc' = "failed"
                /\ err' = KeyError
                /\ UNCHANGED partials
    /\ UNCHANGED <<df, args, result, series, idx, outcol, tblVars>>

NextPartial ==
    \/ BuildDelayedParts
    \/ \E t \in DOMAIN partials : RunCountDtypesTask(t)
    \/ RunMerge
    \/ RunBinsCol
    \/ \E p \in DOMAIN df : RunHist(p)
    \/ RunAggHist

SpecPartial == InitPartial /\ [][NextPartial]_vars

\* the tallies of column k of the dict, summed over the partitions' partial results
PartialTally(k, key) ==
    LET ncols == Len(args.columns_mismatch)
        c == args.columns_mismatch[k][1]
    IN  SumSeq([p \in 1..Len(df) |-> partials[TaskIndex(ncols, p, k)][c][key]])

\* the number of values the partitions' partial results count for column k of hist
PartialCount(k) ==
    LET ncols == Len(args.columns)
        c == args.columns[k]
    IN  SumSeq([p \in 1..Len(df) |-> SumSeq(partials[TaskIndex(ncols, p, k)][c][1])])

\* count_mismatch returned and every partition's partial result is in the merged one
MismatchAllContribute ==
    \A k \in DOMAIN args.columns_mismatch :
        LET c == args.columns_mismatch[k][1]
        IN  /\ c \in DOMAIN result
            /\ \A key \in {"mismatch", "missing", "match"} :
                    result[c][key] = PartialTally(k, key)

\* hist returned and the values every partition counted are in the merged counts
HistAllContribute ==
    \A k \in DOMAIN args.columns :
        LET c == args.columns[k]
        IN  /\ c \in DOMAIN result
            /\ SumSeq(ReportedCounts(c)) = PartialCount(k)

\* C19: an aggregation that returns a merged result has every partition's
\* partial result in it, and one in which a per-partition task raised fails
\* as a whole and returns no merged result
C19_NoSilentPartialSuccess ==
    /\ pc = "failed" => result = NoResult
    /\ result # NoResult => \A t \in DOMAIN partials : partials[t] # Pending
    /\ (pc = "done" /\ args.op = "count_mismatch") => MismatchAllContribute
    /\ (pc = "done" /\ args.op = "hist") => HistAllContribute


-----------------------------------------------------------------------------
(* count_mismatch: the order of the tests of _func (columns.py 53-67)      *)

\* the rows of a partition whose value of column c is null or not, and is
\* accepted by the type predicate or not
RowsWhere(rows, c, dtype, null, accepted) ==
    Cardinality({i \in DOMAIN rows :
                    /\ isnull(rows[i][c]) = null
                    /\ profiler_dtype_func(dtype, rows[i][c]) = accepted})

\* C20: in every partition's tallies a null value is counted as missing, also
\* when the type predicate accepts it; a value that is not null is counted as
\* match when the predicate accepts it and as mismatch otherwise
C20_NullIsMissingBeforePredicate ==
    args.op = "count_mismatch" =>
        \A t \in DOMAIN partials :
            partials[t] # Pending =>
                LET cm == args.columns_mismatch
                    ncols == Len(cm)
                    rows == df[TaskPart(ncols, t)]
                    c == cm[TaskCol(ncols, t)][1]
                    dtype == cm[TaskCol(ncols, t)][2]
                IN  /\ partials[t][c].missing
                         = RowsWhere(rows, c, dtype, TRUE, TRUE)
                             + RowsWhere(rows, c, dtype, TRUE, FALSE)
                    /\ partials[t][c].match = RowsWhere(rows, c, dtype, FALSE, TRUE)
                    /\ partials[t][c].mismatch = RowsWhere(rows, c, dtype, FALSE, FALSE)


-----------------------------------------------------------------------------
(* nest: the Metadata Record of the returned table (columns.py 715-727)    *)

\* the last call was a nest that returned
NestReturned ==
    /\ args # <<>>
    /\ pc = "run"
    /\ args[Len(args)].op = "nest"

\* C21: after a successful nest the Metadata Record of the returned table is
\* that of the table before with one entry added, a NEST entry under the
\* name of the output column; the entries it had are unchanged
C21_NestEntryUnderOutputColumn ==
    NestReturned =>
        ret.meta = Append(df.meta, [column |-> args[Len(args)].output_col[1],
                                    action |-> "NEST"])


-----------------------------------------------------------------------------
(* set: the Metadata Record of the returned table (columns.py 445-450)     *)

\* C22: the table set returns has a SET entry under its output column in its
\* Metadata Record, preserve returning a table with the entry added and
\* leaving the table it is given as it was
C22_SetRecordsEntry ==
    (args.op = "set" /\ pc = "done") => HasEntry(ret, args.output_cols, "SET")


-----------------------------------------------------------------------------
(* rename with a string function alone (columns.py 466-507)                *)

\* the last call was a rename with a function alone, and it returned
RenamedByFunc ==
    /\ args # <<>>
    /\ pc = "run"
    /\ args[Len(args)].op = "rename_func"

\* C23: rename called with a string function alone returns a table in which
\* every column name is the function applied to the name it had, the columns
\* in the order they had and with the values they had
C23_RenameFuncAppliesToEveryName ==
    RenamedByFunc =>
        /\ ret.columns = [k \in DOMAIN df.columns |->
                              str_func(args[Len(args)].func, df.columns[k])]
        /\ ret.parts = df.parts


-----------------------------------------------------------------------------
(* count_mismatch with a column specification that is no dict              *)
(* (columns.py 44-77)                                                      *)

\* count_mismatch was called with a name, a list of names or the wildcard
CalledWithSpec == args.op = "count_mismatch" /\ "spec" \in DOMAIN args

\* C24: count_mismatch called with a column specification that is not a dict
\* does not raise: the specification is resolved to its columns, and what
\* the call returns has the three counts of each of them
C24_SpecResolvedWithoutRaising ==
    CalledWithSpec =>
        /\ pc # "failed"
        /\ pc = "done" =>
              \A k \in DOMAIN args.columns_mismatch :
                  /\ args.columns_mismatch[k] \in DOMAIN result
                  /\ DOMAIN result[args.columns_mismatch[k]]
                        = {"mismatch", "missing", "match"}


-----------------------------------------------------------------------------
(* The trigonometric and hyperbolic operations of DaskFunctions            *)
(* (engines/dask/functions.py 71-105). A float is Float(m, 3), m in        *)
(* thousandths; FloatNaN and FloatInf are the floats nan and inf.          *)

FloatNaN == [t |-> "nan", n |-> 0, s |-> <<>>, e |-> 0]
FloatInf == [t |-> "inf", n |-> 0, s |-> <<>>, e |-> 0]

\* the cells of the column handed to an operation
MathValues == {Num(0), Num(1), Str(<<"x">>), NaN}

\* the names of the operations
MathOps == {"sin", "cos", "tan", "asin", "acos", "atan",
            "sinh", "cosh", "tanh", "asinh", "acosh", "atanh"}

\* self.to_float(series): the numbers as floats, what is no number as nan
to_float(q) ==
    [i \in DOMAIN q |-> IF q[i].t = "num" THEN Float(q[i].n * 1000, 3) ELSE FloatNaN]

\* the primitive prim of dask.array at 0 and at 1, to three decimals
da_value(prim, x) ==
    IF x.t # "float" THEN FloatNaN
    ELSE LET at0 == x.n = 0
         IN  CASE prim = "sin" -> Float(IF at0 THEN 0 ELSE 841, 3)
               [] prim = "cos" -> Float(IF at0 THEN 1000 ELSE 540, 3)
               [] prim = "tan" -> Float(IF at0 THEN 0 ELSE 1557, 3)
               [] prim = "arcsin" -> Float(IF at0 THEN 0 ELSE 1571, 3)
               [] prim = "arccos" -> Float(IF at0 THEN 1571 ELSE 0, 3)
               [] prim = "arctan" -> Float(IF at0 THEN 0 ELSE 785, 3)
               [] prim = "sinh" -> Float(IF at0 THEN 0 ELSE 1175, 3)
               [] prim = "cosh" -> Float(IF at0 THEN 1000 ELSE 1543, 3)
               [] prim = "tanh" -> Float(IF at0 THEN 0 ELSE 762, 3)
               [] prim = "arcsinh" -> Float(IF at0 THEN 0 ELSE 881, 3)
               [] prim = "arccosh" -> IF at0 THEN FloatNaN ELSE Float(0, 3)
               [] prim = "arctanh" -> IF at0 THEN Float(0, 3) ELSE FloatInf

\* da.<prim>(array): the primitive, element by element
da(prim, q) == [i \in DOMAIN q |-> da_value(prim, q[i])]

\* the methods of DaskFunctions, by name
DaskFunctions(name, q) ==
    CASE name = "sin" -> da("sin", to_float(q))
      [] name = "cos" -> da("cos", to_float(q))
      [] name = "tan" -> da("tan", to_float(q))
      [] name = "asin" -> da("arcsin", to_float(q))
      [] name = "acos" -> da("arccos", to_float(q))
      [] name = "atan" -> da("arctan", to_float(q))
      [] name = "sinh" -> da("arcsinh", to_float(q))
      [] name = "cosh" -> da("cosh", to_float(q))
      [] name = "tanh" -> da("tanh", to_float(q))
      [] name = "asinh" -> da("arcsinh", to_float(q))
      [] name = "acosh" -> da("arccosh", to_float(q))
      [] name = "atanh" -> da("arctanh", to_float(q))

InitMath ==
    /\ series \in SeqUpTo(MathValues, MaxLen)
    /\ args \in {[op |-> name] : name \in MathOps}
    /\ outcol = <<>>
    /\ idx = 0
    /\ err = NoError
    /\ pc = "run"
    /\ df = <<>> /\ partials = <<>> /\ result = NoResult
    /\ IdleTbl

\* the operation named is called on the column
CallMath ==
    /\ pc = "run"
    /\ outcol' = DaskFunctions(args.op, series)
    /\ pc' = "done"
    /\ UNCHANGED <<series, idx, err, df, args, partials, result, tblVars>>

NextMath == CallMath

SpecMath == InitMath /\ [][NextMath]_vars

\* the primitive of dask.array that is the mathematical function an
\* operation is named after
MathematicalFunction(name) ==
    CASE name = "asin" -> "arcsin" [] name = "acos" -> "arccos" [] name = "atan" -> "arctan"
      [] name = "asinh" -> "arcsinh" [] name = "acosh" -> "arccosh"
      [] name = "atanh" -> "arctanh" [] OTHER -> name

\* C25: every operation returns what the primitive of the mathematical
\* function it is named after gives for the column as floats: sinh the
\* hyperbolic sine and asinh its inverse, and so for cosh, acosh, tanh, atanh
C25_OperationAppliesItsFunction ==
    pc = "done" => outcol = da(MathematicalFunction(args.op), to_float(series))

=============================================================================
